---- MODULE Spec2Model ----
(***************************************************************************)
(* A model of the LED effect scheduler of ledcontroller.go: the package    *)
(* state (stopChan, effectActive, currentEffectType, ledEnabled, mutex),   *)
(* the three brightness files, the public entry points, and the goroutines *)
(* that runTimedEffect starts (the effect task and its stop listener).     *)
(*                                                                         *)
(* Thread 0 is the host application calling the public API; threads        *)
(* 1..MaxExec are the executions of runTimedEffect, numbered in the order  *)
(* in which they are requested.  Time is not modelled: a sleep ends at any *)
(* step, and a timer may fire at any step at which no other case of its    *)
(* select is ready (a select whose stop case is ready takes that case).    *)
(***************************************************************************)
EXTENDS Integers, Sequences, FiniteSets, TLC

\* ---------------------------------------------------------------- bounds
\* Each behaviour follows one scenario, which limits how many calls of each
\* class the host makes (see Scenarios).
\* Number of runTimedEffect executions in one behaviour (the threads 1..MaxExec).
MaxExec == 3
\* Number of runTimedEffect executions in a preemption scenario.
MaxPreempt == 2
\* Number of StopCurrentEffect calls in a scenario.
MaxStops == 1
\* Number of SetLEDEnabled calls in a mute scenario.
MaxToggles == 2
\* Number of manual setter calls in a manual scenario.
MaxManual == 1
\* Number of hardware write failures in a failure scenario.
MaxIOFail == 1
\* Number of StartEffect calls with a kind StartEffect has no case for.
MaxOther == 1
\* Number of interpolation steps of a FadeColor run by an effect task: the
\* fades of the effect tasks are cut to this many steps.
MaxFadeSteps == 2

\* ------------------------------------------------------ program constants
EFFECT_NONE == 0
EFFECT_BOOTUP == 1
EFFECT_NOTIFICATION == 2
EFFECT_CALL == 3
EFFECT_BLUETOOTH_CONNECTING == 10
EFFECT_BLUETOOTH_FAILED == 12
EFFECT_PARTY == 16
EFFECT_MUSIC == 17
\* capacity of the stop channel made by init()
InitStopCap == 5
\* capacity of the stop channel made by StartEffect
StartStopCap == 1
\* capacity of localStopChan
LocalStopCap == 5
\* number of extra sends of the stop listener
ExtraStopSends == 10
\* FadeColor: steps, the longest step and sub-wait (ns), the least step count
FadeDefaultSteps == 50
FadeMaxStep == 20000000
FadeSubWait == 10000000
FadeMinSteps == 10
\* NotificationEffect: PulseColor(ColorGreen, 0, 2*time.Second, stop)
NotificationPulseCount == 0
NotificationPulseDuration == 2000000000
\* BluetoothFailedEffect: BlinkColor(ColorRed, 3, 200ms, 400ms, stop)
BluetoothFailedBlinkCount == 3
\* BluetoothConnectingEffect: BlinkColor(ColorBlue, 0, 300ms, 500ms, stop)
BluetoothConnectingBlinkCount == 0

ColorRed == <<255, 0, 0>>
ColorGreen == <<0, 255, 0>>
ColorBlue == <<0, 0, 255>>
ColorOff == <<0, 0, 0>>

Caller == 0
Execs == 1..MaxExec
Threads == 0..MaxExec
NoOne == -1

\* The effect kinds whose effect functions are modelled.
BodyKinds == {EFFECT_NOTIFICATION, EFFECT_CALL, EFFECT_BLUETOOTH_FAILED}
\* Kinds StartEffect starts no goroutine for: EFFECT_MUSIC and an undefined one.
OtherKinds == {EFFECT_MUSIC, 18}

\* The scenarios: the number of effect executions, of StartEffect calls that
\* start nothing, of calls of StopCurrentEffect, SetLEDEnabled and the manual
\* setters, and of failing hardware writes; the kinds StartEffect is called
\* with and the kinds whose exported effect function is called directly.
PreemptScenario ==
    [execs |-> MaxPreempt, others |-> 0, stops |-> 0, toggles |-> 0, manuals |-> 0,
     iofails |-> 0, start |-> {EFFECT_CALL}, direct |-> {EFFECT_CALL}]
StopScenario ==
    [execs |-> MaxPreempt, others |-> 0, stops |-> MaxStops, toggles |-> 0,
     manuals |-> 0, iofails |-> 0, start |-> {}, direct |-> {EFFECT_CALL}]
ReplaceScenario ==
    [execs |-> MaxPreempt, others |-> MaxOther, stops |-> 0, toggles |-> 0,
     manuals |-> 0, iofails |-> 0, start |-> {EFFECT_MUSIC},
     direct |-> {EFFECT_CALL}]
UnknownScenario ==
    [execs |-> 1, others |-> MaxOther, stops |-> 0, toggles |-> 1,
     manuals |-> 0, iofails |-> 0, start |-> OtherKinds,
     direct |-> {EFFECT_CALL}]
MuteScenario ==
    [execs |-> 1, others |-> 0, stops |-> MaxStops, toggles |-> MaxToggles,
     manuals |-> 0, iofails |-> 0, start |-> BodyKinds, direct |-> BodyKinds]
ManualScenario ==
    [execs |-> 1, others |-> 0, stops |-> 0, toggles |-> 1, manuals |-> MaxManual,
     iofails |-> 0, start |-> {EFFECT_CALL}, direct |-> {EFFECT_CALL}]
FailureScenario ==
    [execs |-> 1, others |-> 0, stops |-> MaxStops, toggles |-> 0, manuals |-> 0,
     iofails |-> MaxIOFail, start |-> {}, direct |-> BodyKinds]
FiniteScenario ==
    [execs |-> 1, others |-> 0, stops |-> 0, toggles |-> 0, manuals |-> 0,
     iofails |-> 0, start |-> {EFFECT_BLUETOOTH_FAILED}, direct |-> {}]
Scenarios == {PreemptScenario, StopScenario, ReplaceScenario, UnknownScenario,
              MuteScenario, ManualScenario, FailureScenario, FiniteScenario}

\* The colors SetRGB is called with.
ManualColors == {<<255, 0, 0>>, <<-5, 300, 128>>}
\* The values SetRed, SetGreen and SetBlue are called with.
ManualValues == {-5, 128, 300}

VARIABLES
    ledEnabled,         \* var ledEnabled
    effectActive,       \* var effectActive
    currentEffectType,  \* var currentEffectType
    mutex,              \* the thread holding var mutex, or NoOne
    stopChan,           \* var stopChan: the index of the channel it refers to
    chans,              \* the stop channels made so far: chans[c] is the buffer
    hw,                 \* the contents of the red, green, blue brightness files
    th,                 \* per thread: position and locals
    lis,                \* per execution: its stop listener goroutine
    local,              \* per execution: number of signals in localStopChan
    done,               \* per execution: effectDone is closed
    nexec,              \* number of executions requested so far
    launched,           \* number of effect tasks launched so far (history)
    quota,              \* what the scenario still allows
    expect,             \* what the last manual setter asked for (history)
    staleUse,           \* a listener took a signal sent before its launch (history)
    manualSince,        \* a manual setter was called since the last start (history)
    stopSince           \* StopCurrentEffect since the last start (history)

vars == <<ledEnabled, effectActive, currentEffectType, mutex, stopChan, chans,
          hw, th, lis, local, done, nexec, launched, quota, expect, staleUse,
          manualSince, stopSince>>

\* ---------------------------------------------------------------- helpers
Min(a, b) == IF a < b THEN a ELSE b

\* setRed/setGreen/setBlue: the clamp applied before the write.
Clamp(v) == IF v < 0 THEN 0 ELSE IF v > 255 THEN 255 ELSE v

\* setColor: the range check that precedes the three writes.
InRange(c) == \A n \in 1..3 : c[n] >= 0 /\ c[n] <= 255

\* A non-blocking send (select with a default case) on a channel of capacity
\* cap: the value is dropped when the buffer is full.
TrySend(buf, cap, v) == IF Len(buf) < cap THEN Append(buf, v) ELSE buf

ChanCap(c) == IF c = 0 THEN InitStopCap ELSE StartStopCap

\* The thread record of a thread that is not running anything.
Blank == [pc |-> "none", sc |-> 0, col |-> ColorOff, one |-> FALSE, err |-> FALSE,
          kind |-> EFFECT_NONE, i |-> 0, step |-> 0, rem |-> 0, ph |-> 0, lidx |-> 0,
          ret |-> "none", over |-> FALSE, wrote |-> FALSE, took |-> FALSE]
BlankLis == [pc |-> "off", r |-> 0, ch |-> 0, sawIdle |-> FALSE]
\* No manual setter call is on record.  Otherwise asked is the color the last
\* manual setter was called with, only the channel it sets (0: all three), and
\* live whether an effect task was alive, and the LED enabled, at the call.
NoExpect == [asked |-> ColorOff, only |-> -1, live |-> FALSE]

\* An execution whose task goroutine exists and has not finished.
TaskAlive(e) == th[e].pc \notin {"none", "rteLock", "rteSleep", "dead"}
\* An execution that has been requested and has not finished.
ExecBusy(e) == th[e].pc \notin {"none", "dead"}
AnyTaskAlive == \E e \in Execs : TaskAlive(e)
\* An execution that is requested and whose task goroutine is not yet started.
AnyExecPending == \E e \in Execs : th[e].pc \in {"rteLock", "rteSleep"}

\* The public queries, which read under the mutex.
IsLEDEnabled == ledEnabled
IsEffectActive == effectActive
GetCurrentEffect == IF ~effectActive THEN EFFECT_NONE ELSE currentEffectType

\* effectActive is set to FALSE: every listener that is running may later read
\* this value in its unsynchronized read.
MarkIdle(l) == [e \in Execs |->
                  IF l[e].pc = "listen" THEN [l[e] EXCEPT !.sawIdle = TRUE] ELSE l[e]]

Init ==
    /\ ledEnabled = TRUE
    /\ effectActive = FALSE
    /\ currentEffectType = EFFECT_NONE
    /\ mutex = NoOne
    /\ stopChan = 0
    /\ chans = [c \in 0..MaxExec |-> <<>>]
    /\ hw = ColorOff
    /\ th = [t \in Threads |-> IF t = Caller THEN [Blank EXCEPT !.pc = "idle"] ELSE Blank]
    /\ lis = [e \in Execs |-> BlankLis]
    /\ local = [e \in Execs |-> 0]
    /\ done = [e \in Execs |-> FALSE]
    /\ nexec = 0
    /\ launched = 0
    /\ quota \in Scenarios
    /\ expect = NoExpect
    /\ staleUse = FALSE
    /\ manualSince = FALSE
    /\ stopSince = "no"

\* ------------------------------------------------------------- setColor
\* A thread inside setColor (or inside one of setRed, setGreen, setBlue) has
\* th[t].sc > 0: 1 is the entry of setColor, 2n the enabled check of the n-th
\* channel setter and 2n+1 its file write.  th[t].one marks a call of a single
\* channel setter, which returns after its own channel.

\* The step that follows channel setter number n.
AfterChannel(r, n) == IF r.one \/ n = 3 THEN 0 ELSE 2 * n + 2

\* The thread record after a step of setColor that leads to step sc with the
\* result err.  A manual setter of the host returns when setColor returns
\* (lines 1635, 1641, 1647, 1653, 1659).
Step(t, sc, err) ==
    IF t = Caller /\ sc = 0
    THEN [th[t] EXCEPT !.sc = 0, !.err = FALSE, !.pc = "idle", !.one = FALSE,
                       !.col = ColorOff, !.ret = IF err THEN "err" ELSE "nil"]
    ELSE [th[t] EXCEPT !.sc = sc, !.err = err]

\* setColor as it would be without its range check: the channel setters clamp.
setColorEnterNoRangeCheck(t) ==
    /\ th[t].sc = 1
    /\ mutex = NoOne
    /\ th' = [th EXCEPT ![t] =
                IF ~ledEnabled THEN Step(t, 0, FALSE) ELSE Step(t, 2, FALSE)]
    /\ UNCHANGED <<ledEnabled, effectActive, currentEffectType, mutex, stopChan,
                   chans, hw, lis, local, done, nexec, launched, quota, expect,
                   staleUse, manualSince, stopSince>>

\* setColor as it would be if it waited for the LED to be enabled instead of
\* returning nil.
setColorEnterWaitsForEnable(t) ==
    /\ th[t].sc = 1
    /\ mutex = NoOne
    /\ ledEnabled
    /\ th' = [th EXCEPT ![t] =
                IF ~InRange(th[t].col) THEN Step(t, 0, TRUE)
                ELSE Step(t, 2, FALSE)]
    /\ UNCHANGED <<ledEnabled, effectActive, currentEffectType, mutex,
                   stopChan, chans, hw, lis, local, done, nexec, launched,
                   quota, expect, staleUse, manualSince, stopSince>>

\* setColor, lines 157-167: IsLEDEnabled() and the range check.
setColorEnter(t) ==
    /\ th[t].sc = 1
    /\ mutex = NoOne
    /\ th' = [th EXCEPT ![t] =
                IF ~ledEnabled THEN Step(t, 0, FALSE)
                ELSE IF ~InRange(th[t].col) THEN Step(t, 0, TRUE)
                ELSE Step(t, 2, FALSE)]
    /\ UNCHANGED <<ledEnabled, effectActive, currentEffectType, mutex,
                   stopChan, chans, hw, lis, local, done, nexec, launched,
                   quota, expect, staleUse, manualSince, stopSince>>

\* setRed/setGreen/setBlue, the read of ledEnabled under the mutex: a disabled
\* LED makes the setter return nil without writing.
setChannelGate(t) ==
    /\ th[t].sc \in {2, 4, 6}
    /\ mutex = NoOne
    /\ LET n == th[t].sc \div 2 IN
       th' = [th EXCEPT ![t] =
                IF ~ledEnabled
                THEN Step(t, AfterChannel(th[t], n), FALSE)
                ELSE Step(t, 2 * n + 1, FALSE)]
    /\ UNCHANGED <<ledEnabled, effectActive, currentEffectType, mutex,
                   stopChan, chans, hw, lis, local, done, nexec, launched,
                   quota, expect, staleUse, manualSince, stopSince>>

\* The file write of a channel setter as it would be without the clamp.
setChannelWriteNoClamp(t) ==
    /\ th[t].sc \in {3, 5, 7}
    /\ LET n == th[t].sc \div 2 IN
       /\ hw' = [hw EXCEPT ![n] = th[t].col[n]]
       /\ th' = [th EXCEPT ![t] = [Step(t, AfterChannel(th[t], n), FALSE)
                                     EXCEPT !.wrote = (t # Caller)]]
    /\ UNCHANGED <<ledEnabled, effectActive, currentEffectType, mutex,
                   stopChan, chans, lis, local, done, nexec, launched, quota,
                   expect, staleUse, manualSince, stopSince>>

\* setRed/setGreen/setBlue, the clamp and ioutil.WriteFile succeeding.
setChannelWrite(t) ==
    /\ th[t].sc \in {3, 5, 7}
    /\ LET n == th[t].sc \div 2 IN
       /\ hw' = [hw EXCEPT ![n] = Clamp(th[t].col[n])]
       /\ th' = [th EXCEPT ![t] = [Step(t, AfterChannel(th[t], n), FALSE)
                                     EXCEPT !.wrote = (t # Caller)]]
    /\ UNCHANGED <<ledEnabled, effectActive, currentEffectType, mutex,
                   stopChan, chans, lis, local, done, nexec, launched, quota,
                   expect, staleUse, manualSince, stopSince>>

\* A failing file write as it would be if setColor went on to the setters that
\* follow and returned the error at the end.
setChannelWriteFailGoesOn(t) ==
    /\ th[t].sc \in {3, 5, 7}
    /\ quota.iofails > 0
    /\ quota' = [quota EXCEPT !.iofails = @ - 1]
    /\ th' = [th EXCEPT ![t] = Step(t, AfterChannel(th[t], th[t].sc \div 2), TRUE)]
    /\ UNCHANGED <<ledEnabled, effectActive, currentEffectType, mutex,
                   stopChan, chans, hw, lis, local, done, nexec, launched,
                   expect, staleUse, manualSince, stopSince>>

\* setRed/setGreen/setBlue, ioutil.WriteFile failing: the error is returned and
\* setColor returns it without calling the setters that follow.
setChannelWriteFail(t) ==
    /\ th[t].sc \in {3, 5, 7}
    /\ quota.iofails > 0
    /\ quota' = [quota EXCEPT !.iofails = @ - 1]
    /\ th' = [th EXCEPT ![t] = Step(t, 0, TRUE)]
    /\ UNCHANGED <<ledEnabled, effectActive, currentEffectType, mutex,
                   stopChan, chans, hw, lis, local, done, nexec, launched,
                   expect, staleUse, manualSince, stopSince>>

\* A thread record that calls setColor(c) and continues at pc afterwards.
CallSetColor(r, c, pc) == [r EXCEPT !.sc = 1, !.col = c, !.one = FALSE, !.pc = pc]

\* ------------------------------------------------------- public entry points
\* The body of StopCurrentEffect, lines 69-90, on the stop channels.
StopSend(ch) ==
    IF effectActive
    THEN [ch EXCEPT ![stopChan] = TrySend(@, ChanCap(stopChan), launched)]
    ELSE ch

\* StopCurrentEffect as it would be if it sent the stop signal without looking
\* at effectActive.
StopCurrentEffectAlwaysSends ==
    /\ quota.stops > 0
    /\ th[Caller].pc = "idle"
    /\ mutex = NoOne
    /\ chans' = [chans EXCEPT ![stopChan] = TrySend(@, ChanCap(stopChan), launched)]
    /\ currentEffectType' = EFFECT_NONE
    /\ quota' = [quota EXCEPT !.stops = @ - 1]
    /\ expect' = NoExpect
    /\ stopSince' = IF AnyTaskAlive /\ ~AnyExecPending THEN "live"
                    ELSE IF effectActive THEN "early" ELSE "idle"
    /\ UNCHANGED <<ledEnabled, effectActive, mutex, stopChan, hw, th, lis,
                   local, done, nexec, launched, staleUse, manualSince>>

\* StopCurrentEffect, lines 68-91.
StopCurrentEffect ==
    /\ quota.stops > 0
    /\ th[Caller].pc = "idle"
    /\ mutex = NoOne
    /\ chans' = StopSend(chans)
    /\ currentEffectType' = EFFECT_NONE
    /\ quota' = [quota EXCEPT !.stops = @ - 1]
    /\ expect' = NoExpect
    /\ stopSince' = IF AnyTaskAlive /\ ~AnyExecPending THEN "live"
                    ELSE IF effectActive THEN "early" ELSE "idle"
    /\ UNCHANGED <<ledEnabled, effectActive, mutex, stopChan, hw, th, lis,
                   local, done, nexec, launched, staleUse, manualSince>>

\* SetLEDEnabled as it would be if disabling the LED also cancelled the running
\* effect the way StopCurrentEffect does.
SetLEDEnabledCancels(enabled) ==
    /\ quota.toggles > 0
    /\ mutex = NoOne
    /\ ledEnabled' = enabled
    /\ hw' = IF ledEnabled /\ ~enabled THEN ColorOff ELSE hw
    /\ chans' = IF ledEnabled /\ ~enabled THEN StopSend(chans) ELSE chans
    /\ currentEffectType' = IF ledEnabled /\ ~enabled THEN EFFECT_NONE
                            ELSE currentEffectType
    /\ quota' = [quota EXCEPT !.toggles = @ - 1]
    /\ expect' = NoExpect
    /\ UNCHANGED <<effectActive, mutex, stopChan, th, lis, local, done, nexec,
                   launched, staleUse, manualSince, stopSince>>

\* SetLEDEnabled as it would be if it also put every running effect back at the
\* start of its sequence.
SetLEDEnabledRestarts(enabled) ==
    /\ quota.toggles > 0
    /\ mutex = NoOne
    /\ ledEnabled' = enabled
    /\ hw' = IF ledEnabled /\ ~enabled THEN ColorOff ELSE hw
    /\ quota' = [quota EXCEPT !.toggles = @ - 1]
    /\ expect' = NoExpect
    /\ th' = [t \in Threads |->
                IF t # Caller /\ TaskAlive(t)
                THEN [th[t] EXCEPT !.i = 0, !.ph = 0, !.step = 0]
                ELSE th[t]]
    /\ UNCHANGED <<effectActive, currentEffectType, mutex, stopChan, chans,
                   lis, local, done, nexec, launched, staleUse,
                   manualSince, stopSince>>

\* SetLEDEnabled, lines 1682-1702; the three writes of "0" are made while the
\* mutex is held.  The call may come from a second host thread.
SetLEDEnabled(enabled) ==
    /\ quota.toggles > 0
    /\ mutex = NoOne
    /\ ledEnabled' = enabled
    /\ hw' = IF ledEnabled /\ ~enabled THEN ColorOff ELSE hw
    /\ quota' = [quota EXCEPT !.toggles = @ - 1]
    /\ expect' = NoExpect
    /\ UNCHANGED <<effectActive, currentEffectType, mutex, stopChan, chans,
                   th, lis, local, done, nexec, launched, staleUse,
                   manualSince, stopSince>>

\* SetRGB, lines 1657-1660 (EnableLED, lines 1651-1654, and TurnOffLED, lines
\* 183-186, are the same two calls): StopCurrentEffect(), then setColor.
SetRGB(c) ==
    /\ quota.manuals > 0
    /\ th[Caller].pc = "idle"
    /\ mutex = NoOne
    /\ chans' = StopSend(chans)
    /\ currentEffectType' = EFFECT_NONE
    /\ th' = [th EXCEPT ![Caller] = CallSetColor(@, c, "manual")]
    /\ quota' = [quota EXCEPT !.manuals = @ - 1]
    /\ expect' = IF ledEnabled
                 THEN [asked |-> c, only |-> 0, live |-> AnyTaskAlive]
                 ELSE NoExpect
    /\ manualSince' = TRUE
    /\ UNCHANGED <<ledEnabled, effectActive, mutex, stopChan, hw, lis, local,
                   done, nexec, launched, staleUse, stopSince>>

\* SetRed, SetGreen, SetBlue, lines 1633-1648: StopCurrentEffect(), then the
\* setter of channel n.
SetChannel(n, v) ==
    /\ quota.manuals > 0
    /\ th[Caller].pc = "idle"
    /\ mutex = NoOne
    /\ chans' = StopSend(chans)
    /\ currentEffectType' = EFFECT_NONE
    /\ th' = [th EXCEPT ![Caller] =
                [@ EXCEPT !.sc = 2 * n, !.one = TRUE, !.pc = "manual",
                          !.col = [ColorOff EXCEPT ![n] = v]]]
    /\ quota' = [quota EXCEPT !.manuals = @ - 1]
    /\ expect' = IF ledEnabled
                 THEN [asked |-> [ColorOff EXCEPT ![n] = v], only |-> n,
                       live |-> AnyTaskAlive]
                 ELSE NoExpect
    /\ manualSince' = TRUE
    /\ UNCHANGED <<ledEnabled, effectActive, mutex, stopChan, hw, lis, local,
                   done, nexec, launched, staleUse, stopSince>>

SetRed(v) == SetChannel(1, v)
SetGreen(v) == SetChannel(2, v)
SetBlue(v) == SetChannel(3, v)

\* The switch of StartEffect, lines 1738-1774: the kinds it starts a goroutine
\* for (EFFECT_MUSIC has no case).
Startable(k) == k \in 1..EFFECT_PARTY

\* StartEffect as it would be without its IsLEDEnabled() check.
StartEffectNoEnabledCheck(effectType) ==
    /\ IF Startable(effectType) THEN quota.execs > 0 ELSE quota.others > 0
    /\ th[Caller].pc = "idle"
    /\ mutex = NoOne
    /\ th' = [th EXCEPT ![Caller] =
                [@ EXCEPT !.pc = "seLock", !.kind = effectType,
                          !.over = AnyTaskAlive]]
    /\ quota' = IF Startable(effectType) THEN [quota EXCEPT !.execs = @ - 1]
                 ELSE [quota EXCEPT !.others = @ - 1]
    /\ expect' = NoExpect
    /\ stopSince' = "no"
    /\ UNCHANGED <<ledEnabled, effectActive, currentEffectType, mutex,
                   stopChan, chans, hw, lis, local, done, nexec, launched,
                   staleUse, manualSince>>

\* StartEffect, lines 1713-1715: IsLEDEnabled() is false and the call returns
\* false; otherwise the call goes on to lock the mutex.
StartEffect(effectType) ==
    /\ IF Startable(effectType) THEN quota.execs > 0 ELSE quota.others > 0
    /\ th[Caller].pc = "idle"
    /\ mutex = NoOne
    /\ th' = [th EXCEPT ![Caller] =
                IF ~ledEnabled
                THEN [@ EXCEPT !.ret = "false"]
                ELSE [@ EXCEPT !.pc = "seLock", !.kind = effectType,
                               !.over = AnyTaskAlive]]
    /\ quota' = IF Startable(effectType) THEN [quota EXCEPT !.execs = @ - 1]
                 ELSE [quota EXCEPT !.others = @ - 1]
    /\ expect' = NoExpect
    /\ stopSince' = IF ~ledEnabled THEN stopSince ELSE "no"
    /\ UNCHANGED <<ledEnabled, effectActive, currentEffectType, mutex,
                   stopChan, chans, hw, lis, local, done, nexec, launched,
                   staleUse, manualSince>>

\* StartEffect, lines 1732-1776: a new stop channel, the scheduler record, the
\* goroutine of the effect function, and the unlock on return.
StartEffectInstall ==
    LET k == th[Caller].kind
        e == nexec + 1
    IN
    /\ stopChan' = stopChan + 1
    /\ mutex' = NoOne
    /\ currentEffectType' = k
    /\ IF Startable(k)
       THEN /\ effectActive' = TRUE
            /\ th' = [th EXCEPT ![Caller] = [@ EXCEPT !.pc = "idle", !.ret = "true",
                                                      !.kind = EFFECT_NONE,
                                                      !.over = FALSE],
                                ![e] = [Blank EXCEPT !.pc = "rteLock", !.kind = k,
                                                     !.over = th[Caller].over]]
            /\ nexec' = e
            /\ manualSince' = FALSE
            /\ lis' = lis
       ELSE /\ effectActive' = FALSE
            /\ th' = [th EXCEPT ![Caller] = [@ EXCEPT !.pc = "idle", !.ret = "false",
                                                      !.kind = EFFECT_NONE,
                                                      !.over = FALSE]]
            /\ lis' = MarkIdle(lis)
            /\ UNCHANGED <<nexec, manualSince, stopSince>>

\* StartEffect, lines 1717-1730, no effect active: the call goes straight on.
StartEffectLockIdle ==
    /\ th[Caller].pc = "seLock"
    /\ mutex = NoOne
    /\ ~effectActive
    /\ StartEffectInstall
    /\ UNCHANGED <<ledEnabled, chans, hw, local, done, launched, quota,
                   expect, staleUse, stopSince>>

\* StartEffect, lines 1717-1729, an effect is active: the non-blocking send on
\* stopChan, then time.Sleep(100ms) with the mutex held.
StartEffectLockBusy ==
    /\ th[Caller].pc = "seLock"
    /\ mutex = NoOne
    /\ effectActive
    /\ chans' = StopSend(chans)
    /\ mutex' = Caller
    /\ th' = [th EXCEPT ![Caller] = [@ EXCEPT !.pc = "seSleep"]]
    /\ UNCHANGED <<ledEnabled, effectActive, currentEffectType, stopChan, hw,
                   lis, local, done, nexec, launched, quota, expect, staleUse,
                   manualSince, stopSince>>

\* StartEffect, line 1729: the sleep ends.
StartEffectWake ==
    /\ th[Caller].pc = "seSleep"
    /\ mutex = Caller
    /\ StartEffectInstall
    /\ UNCHANGED <<ledEnabled, chans, hw, local, done, launched, quota,
                   expect, staleUse, stopSince>>

\* An exported effect function (NotificationEffect, CallNotificationEffect,
\* BluetoothFailedEffect) called by the host: runTimedEffect runs in the calling
\* thread, which gets nil back once the task goroutine is started (Launch).
DirectEffect(k) ==
    /\ quota.execs > 0
    /\ th[Caller].pc = "idle"
    /\ nexec' = nexec + 1
    /\ th' = [th EXCEPT ![Caller] = [@ EXCEPT !.pc = "inDirect", !.i = nexec + 1],
                        ![nexec + 1] = [Blank EXCEPT !.pc = "rteLock", !.kind = k]]
    /\ quota' = [quota EXCEPT !.execs = @ - 1]
    /\ expect' = NoExpect
    /\ manualSince' = FALSE
    /\ stopSince' = "no"
    /\ UNCHANGED <<ledEnabled, effectActive, currentEffectType, mutex,
                   stopChan, chans, hw, lis, local, done, launched, staleUse>>

\* ------------------------------------------------------------ runTimedEffect
\* The first step of the effect function of each kind, run by the task
\* goroutine once it is started (line 1604).
EffectEntry(r) ==
    CASE r.kind = EFFECT_CALL -> [CallSetColor(r, ColorRed, "callOn") EXCEPT !.ph = 1]
      [] r.kind \in {EFFECT_BLUETOOTH_FAILED, EFFECT_BLUETOOTH_CONNECTING} ->
            [r EXCEPT !.pc = "blinkSel", !.i = 0]
      [] r.kind = EFFECT_NOTIFICATION -> [r EXCEPT !.pc = "pulseSel", !.i = 0]
      [] OTHER -> [r EXCEPT !.pc = "effRet"]

\* runTimedEffect, lines 1543-1601: the scheduler record is written, the mutex
\* released, and the task goroutine and its stop listener are started.
Launch(e) ==
    /\ currentEffectType' = th[e].kind
    /\ effectActive' = TRUE
    /\ mutex' = NoOne
    /\ launched' = launched + 1
    /\ th' = [th EXCEPT ![e] = EffectEntry([@ EXCEPT !.lidx = launched + 1]),
                        ![Caller] = IF @.pc = "inDirect" /\ @.i = e
                                    THEN [@ EXCEPT !.pc = "idle", !.i = 0,
                                                   !.ret = "nil"]
                                    ELSE @]
    /\ lis' = [lis EXCEPT ![e] = [pc |-> "listen", r |-> 0, ch |-> stopChan,
                                  sawIdle |-> FALSE]]

\* runTimedEffect, lines 1528-1547, no effect active.
runTimedEffectIdle(e) ==
    /\ th[e].pc = "rteLock"
    /\ mutex = NoOne
    /\ ~effectActive
    /\ Launch(e)
    /\ UNCHANGED <<ledEnabled, stopChan, chans, hw, local, done, nexec, quota,
                   expect, staleUse, manualSince, stopSince>>

\* runTimedEffect with an effect active, as it would be if the send on stopChan
\* were a plain send, which waits for room in the channel.
runTimedEffectBusyPlainSend(e) ==
    /\ th[e].pc = "rteLock"
    /\ mutex = NoOne
    /\ effectActive
    /\ Len(chans[stopChan]) < ChanCap(stopChan)
    /\ chans' = StopSend(chans)
    /\ mutex' = e
    /\ th' = [th EXCEPT ![e] = [@ EXCEPT !.pc = "rteSleep"]]
    /\ UNCHANGED <<ledEnabled, effectActive, currentEffectType, stopChan, hw,
                   lis, local, done, nexec, launched, quota, expect, staleUse,
                   manualSince, stopSince>>

\* runTimedEffect, lines 1528-1540, an effect is active: the non-blocking send
\* on stopChan, then time.Sleep(50ms) with the mutex held.
runTimedEffectBusy(e) ==
    /\ th[e].pc = "rteLock"
    /\ mutex = NoOne
    /\ effectActive
    /\ chans' = StopSend(chans)
    /\ mutex' = e
    /\ th' = [th EXCEPT ![e] = [@ EXCEPT !.pc = "rteSleep"]]
    /\ UNCHANGED <<ledEnabled, effectActive, currentEffectType, stopChan, hw,
                   lis, local, done, nexec, launched, quota, expect, staleUse,
                   manualSince, stopSince>>

\* runTimedEffect, line 1540: the sleep ends.
runTimedEffectWake(e) ==
    /\ th[e].pc = "rteSleep"
    /\ mutex = e
    /\ Launch(e)
    /\ UNCHANGED <<ledEnabled, stopChan, chans, hw, local, done, nexec, quota,
                   expect, staleUse, manualSince, stopSince>>

\* A signal on a stop channel carries (history) the number of tasks launched
\* when it was sent.  It is stale for execution e when it was sent after some
\* task was launched and before the task of e was.
StaleFor(e, sig) == sig >= 1 /\ sig < th[e].lidx

\* The stop listener, lines 1566-1574: a signal is received from the channel
\* the listener read from stopChan; the first send on localStopChan follows in
\* ListenerRelay.
ListenerReceive(e) ==
    /\ lis[e].pc = "listen"
    /\ chans[lis[e].ch] # <<>>
    /\ chans' = [chans EXCEPT ![lis[e].ch] = Tail(@)]
    /\ lis' = [lis EXCEPT ![e] = [@ EXCEPT !.pc = "relay", !.r = 0]]
    /\ staleUse' = (staleUse \/ StaleFor(e, Head(chans[lis[e].ch])))
    /\ UNCHANGED <<ledEnabled, effectActive, currentEffectType, mutex,
                   stopChan, hw, th, local, done, nexec, launched, quota,
                   expect, manualSince, stopSince>>

\* The effect functions that return after the first stop signal they receive
\* (CallNotificationEffect; BlinkColor in BluetoothFailedEffect and in
\* BluetoothConnectingEffect).
SingleTake(k) ==
    k \in {EFFECT_CALL, EFFECT_BLUETOOTH_FAILED, EFFECT_BLUETOOTH_CONNECTING}

\* Nothing will receive what is sent on localStopChan from now on: the effect
\* function of execution e has returned or is in its last setColor, or it
\* returns after one signal and one signal is waiting.
NoReceiver(e) ==
    \/ th[e].pc \in {"effRet", "rteClose", "rteFinal", "dead"}
    \/ SingleTake(th[e].kind) /\ local[e] > 0

\* The stop listener, lines 1569-1588: one non-blocking send on localStopChan;
\* after the first send and ExtraStopSends further ones the listener returns.
\* Sends that nothing can receive are not counted one by one.
ListenerRelay(e) ==
    /\ lis[e].pc = "relay"
    /\ local' = [local EXCEPT ![e] = IF NoReceiver(e) THEN @
                                     ELSE Min(@ + 1, LocalStopCap)]
    /\ lis' = [lis EXCEPT ![e] =
                 IF lis[e].r = ExtraStopSends \/ NoReceiver(e)
                 THEN [@ EXCEPT !.pc = "exit", !.r = 0]
                 ELSE [@ EXCEPT !.r = lis[e].r + 1]]
    /\ UNCHANGED <<ledEnabled, effectActive, currentEffectType, mutex,
                   stopChan, chans, hw, th, done, nexec, launched, quota,
                   expect, staleUse, manualSince, stopSince>>

\* The stop listener, lines 1589-1592: effectDone is closed.
ListenerDone(e) ==
    /\ lis[e].pc = "listen"
    /\ done[e]
    /\ lis' = [lis EXCEPT ![e] = [@ EXCEPT !.pc = "exit"]]
    /\ UNCHANGED <<ledEnabled, effectActive, currentEffectType, mutex,
                   stopChan, chans, hw, th, local, done, nexec, launched,
                   quota, expect, staleUse, manualSince, stopSince>>

\* The stop listener, lines 1593-1598: the 100ms timer fires and effectActive,
\* read without the mutex, is false.  The unsynchronized read may return any
\* value effectActive has had since the listener was started.
ListenerTimeoutExit(e) ==
    /\ lis[e].pc = "listen"
    /\ chans[lis[e].ch] = <<>> /\ ~done[e]
    /\ ~effectActive \/ lis[e].sawIdle
    /\ lis' = [lis EXCEPT ![e] = [@ EXCEPT !.pc = "exit"]]
    /\ UNCHANGED <<ledEnabled, effectActive, currentEffectType, mutex,
                   stopChan, chans, hw, th, local, done, nexec, launched,
                   quota, expect, staleUse, manualSince, stopSince>>

\* The stop listener, lines 1564-1566 after a timeout: the loop evaluates
\* stopChan again, without the mutex, and waits on the channel it read (any
\* channel stopChan has referred to since the previous read).
ListenerReload(e) ==
    /\ lis[e].pc = "listen"
    /\ chans[lis[e].ch] = <<>> /\ ~done[e]
    /\ \E c \in (lis[e].ch + 1)..stopChan :
          lis' = [lis EXCEPT ![e] = [@ EXCEPT !.ch = c]]
    /\ UNCHANGED <<ledEnabled, effectActive, currentEffectType, mutex,
                   stopChan, chans, hw, th, local, done, nexec, launched,
                   quota, expect, staleUse, manualSince, stopSince>>

\* runTimedEffect, lines 1605-1608: the effect function has returned and
\* setColor(ColorOff) is called.
runTimedEffectOff(e) ==
    /\ th[e].pc = "effRet"
    /\ th[e].sc = 0
    /\ th' = [th EXCEPT ![e] = CallSetColor(@, ColorOff, "rteClose")]
    /\ UNCHANGED <<ledEnabled, effectActive, currentEffectType, mutex,
                   stopChan, chans, hw, lis, local, done, nexec, launched,
                   quota, expect, staleUse, manualSince, stopSince>>

\* runTimedEffect, lines 1612-1616: close(effectDone), then the 50ms sleep.
runTimedEffectClose(e) ==
    /\ th[e].pc = "rteClose"
    /\ th[e].sc = 0
    /\ done' = [done EXCEPT ![e] = TRUE]
    /\ th' = [th EXCEPT ![e] = [@ EXCEPT !.pc = "rteFinal"]]
    /\ UNCHANGED <<ledEnabled, effectActive, currentEffectType, mutex,
                   stopChan, chans, hw, lis, local, nexec, launched, quota,
                   expect, staleUse, manualSince, stopSince>>

\* The end of runTimedEffect as it would be if the record were reset without
\* locking the mutex.
runTimedEffectFinalUnlocked(e) ==
    /\ th[e].pc = "rteFinal"
    /\ effectActive' = FALSE
    /\ currentEffectType' = EFFECT_NONE
    /\ th' = [th EXCEPT ![e] = [Blank EXCEPT !.pc = "dead", !.kind = th[e].kind,
                                              !.lidx = th[e].lidx,
                                              !.over = th[e].over]]
    /\ lis' = MarkIdle(lis)
    /\ local' = [local EXCEPT ![e] = 0]
    /\ UNCHANGED <<ledEnabled, mutex, stopChan, chans, hw, done, nexec,
                   launched, quota, expect, staleUse, manualSince, stopSince>>

\* The end of runTimedEffect as it would be without the reset of the record.
runTimedEffectFinalKeepsRecord(e) ==
    /\ th[e].pc = "rteFinal"
    /\ mutex = NoOne
    /\ th' = [th EXCEPT ![e] = [Blank EXCEPT !.pc = "dead", !.kind = th[e].kind,
                                              !.lidx = th[e].lidx,
                                              !.over = th[e].over]]
    /\ local' = [local EXCEPT ![e] = 0]
    /\ UNCHANGED <<ledEnabled, effectActive, currentEffectType, mutex, stopChan,
                   chans, hw, lis, done, nexec, launched, quota, expect,
                   staleUse, manualSince, stopSince>>

\* runTimedEffect, lines 1620-1624: the task resets the scheduler record.
runTimedEffectFinal(e) ==
    /\ th[e].pc = "rteFinal"
    /\ mutex = NoOne
    /\ effectActive' = FALSE
    /\ currentEffectType' = EFFECT_NONE
    /\ th' = [th EXCEPT ![e] = [Blank EXCEPT !.pc = "dead", !.kind = th[e].kind,
                                              !.lidx = th[e].lidx,
                                              !.over = th[e].over]]
    /\ lis' = MarkIdle(lis)
    /\ local' = [local EXCEPT ![e] = 0]
    /\ UNCHANGED <<ledEnabled, mutex, stopChan, chans, hw, done, nexec,
                   launched, quota, expect, staleUse, manualSince, stopSince>>

\* ------------------------------------------------- CallNotificationEffect
\* A select on the stop channel and a timer, with the stop case taken: the
\* signal is consumed.
TakeStop(e) == local[e] > 0 /\ local' = [local EXCEPT ![e] = @ - 1]

\* Lines 438-446: the on-time; a stop signal ends the effect with
\* setColor(ColorOff), the timer leads to setColor(ColorOff) and the off-time.
CallOnStop(e) ==
    /\ th[e].pc = "callOn" /\ th[e].sc = 0
    /\ TakeStop(e)
    /\ th' = [th EXCEPT ![e] = 
                [CallSetColor(@, ColorOff, "effRet") EXCEPT !.took = TRUE]]
    /\ UNCHANGED <<ledEnabled, effectActive, currentEffectType, mutex,
                   stopChan, chans, hw, lis, done, nexec, launched, quota,
                   expect, staleUse, manualSince, stopSince>>

CallOnTimer(e) ==
    /\ th[e].pc = "callOn" /\ th[e].sc = 0
    /\ local[e] = 0
    /\ th' = [th EXCEPT ![e] = CallSetColor(@, ColorOff, "callOff")]
    /\ UNCHANGED <<ledEnabled, effectActive, currentEffectType, mutex,
                   stopChan, chans, hw, lis, local, done, nexec, launched,
                   quota, expect, staleUse, manualSince, stopSince>>

\* Lines 447-455 and 431-435: the off-time; a stop signal ends the effect with
\* setColor(ColorOff), the timer flips isRed and sets the next color.
CallOffStop(e) ==
    /\ th[e].pc = "callOff" /\ th[e].sc = 0
    /\ TakeStop(e)
    /\ th' = [th EXCEPT ![e] = 
                [CallSetColor(@, ColorOff, "effRet") EXCEPT !.took = TRUE]]
    /\ UNCHANGED <<ledEnabled, effectActive, currentEffectType, mutex,
                   stopChan, chans, hw, lis, done, nexec, launched, quota,
                   expect, staleUse, manualSince, stopSince>>

CallOffTimer(e) ==
    /\ th[e].pc = "callOff" /\ th[e].sc = 0
    /\ local[e] = 0
    /\ th' = [th EXCEPT ![e] =
                [CallSetColor(@, IF th[e].ph = 1 THEN ColorBlue ELSE ColorRed, "callOn")
                   EXCEPT !.ph = 1 - th[e].ph]]
    /\ UNCHANGED <<ledEnabled, effectActive, currentEffectType, mutex,
                   stopChan, chans, hw, lis, local, done, nexec, launched,
                   quota, expect, staleUse, manualSince, stopSince>>

\* ------------------------------------------------------------ BlinkColor
\* BluetoothFailedEffect, lines 882-888: BlinkColor(ColorRed, 3, 200ms, 400ms),
\* then setColor(ColorOff); BluetoothConnectingEffect, lines 856-862:
\* BlinkColor(ColorBlue, 0, 300ms, 500ms), then setColor(ColorOff).
BlinkColorOf(k) == IF k = EFFECT_BLUETOOTH_CONNECTING THEN ColorBlue ELSE ColorRed
BlinkCountOf(k) ==
    IF k = EFFECT_BLUETOOTH_CONNECTING THEN BluetoothConnectingBlinkCount
    ELSE BluetoothFailedBlinkCount

\* "setColor(ColorOff); return nil" inside a primitive that returns to pc.
ExitOff(r, pc) == [CallSetColor(r, ColorOff, pc) EXCEPT !.ret = "nil"]

\* BlinkColor, lines 359-363: the stop signal is there at the top of a round.
BlinkSelStop(e) ==
    /\ th[e].pc = "blinkSel" /\ th[e].sc = 0
    /\ TakeStop(e)
    /\ th' = [th EXCEPT ![e] = 
                [ExitOff(@, "blinkRet") EXCEPT !.took = TRUE]]
    /\ UNCHANGED <<ledEnabled, effectActive, currentEffectType, mutex,
                   stopChan, chans, hw, lis, done, nexec, launched, quota,
                   expect, staleUse, manualSince, stopSince>>

\* BlinkColor, line 364: no stop signal, the default case is taken.
BlinkSelDefault(e) ==
    /\ th[e].pc = "blinkSel" /\ th[e].sc = 0
    /\ local[e] = 0
    /\ th' = [th EXCEPT ![e] = [@ EXCEPT !.pc = "blinkAct"]]
    /\ UNCHANGED <<ledEnabled, effectActive, currentEffectType, mutex,
                   stopChan, chans, hw, lis, local, done, nexec, launched,
                   quota, expect, staleUse, manualSince, stopSince>>

\* BlinkColor, lines 366-376: effectActive is read under the mutex; the color
\* is set if it is true.
BlinkAct(e) ==
    /\ th[e].pc = "blinkAct"
    /\ mutex = NoOne
    /\ th' = [th EXCEPT ![e] =
                IF ~effectActive THEN ExitOff(@, "blinkRet")
                ELSE CallSetColor(@, BlinkColorOf(th[e].kind), "blinkOn")]
    /\ UNCHANGED <<ledEnabled, effectActive, currentEffectType, mutex,
                   stopChan, chans, hw, lis, local, done, nexec, launched,
                   quota, expect, staleUse, manualSince, stopSince>>

\* A stop signal during the on-time of BlinkColor as it would be if BlinkColor
\* returned without setColor(ColorOff).
BlinkOnStopNoOff(e) ==
    /\ th[e].pc = "blinkOn" /\ th[e].sc = 0
    /\ TakeStop(e)
    /\ th' = [th EXCEPT ![e] =
                [@ EXCEPT !.pc = "blinkRet", !.ret = "nil", !.took = TRUE]]
    /\ UNCHANGED <<ledEnabled, effectActive, currentEffectType, mutex,
                   stopChan, chans, hw, lis, done, nexec, launched, quota,
                   expect, staleUse, manualSince, stopSince>>

\* BlinkColor, lines 380-384: a stop signal during the on-time.
BlinkOnStop(e) ==
    /\ th[e].pc = "blinkOn" /\ th[e].sc = 0
    /\ TakeStop(e)
    /\ th' = [th EXCEPT ![e] = 
                [ExitOff(@, "blinkRet") EXCEPT !.took = TRUE]]
    /\ UNCHANGED <<ledEnabled, effectActive, currentEffectType, mutex,
                   stopChan, chans, hw, lis, done, nexec, launched, quota,
                   expect, staleUse, manualSince, stopSince>>

\* BlinkColor, lines 385-398: the on-time is over, effectActive is read, and
\* the LED is switched off for the off-time.
BlinkOnTimer(e) ==
    /\ th[e].pc = "blinkOn" /\ th[e].sc = 0
    /\ local[e] = 0
    /\ mutex = NoOne
    /\ th' = [th EXCEPT ![e] =
                IF ~effectActive THEN ExitOff(@, "blinkRet")
                ELSE CallSetColor(@, ColorOff, "blinkOff")]
    /\ UNCHANGED <<ledEnabled, effectActive, currentEffectType, mutex,
                   stopChan, chans, hw, lis, local, done, nexec, launched,
                   quota, expect, staleUse, manualSince, stopSince>>

\* BlinkColor, lines 401-405: a stop signal during the off-time.
BlinkOffStop(e) ==
    /\ th[e].pc = "blinkOff" /\ th[e].sc = 0
    /\ TakeStop(e)
    /\ th' = [th EXCEPT ![e] = 
                [ExitOff(@, "blinkRet") EXCEPT !.took = TRUE]]
    /\ UNCHANGED <<ledEnabled, effectActive, currentEffectType, mutex,
                   stopChan, chans, hw, lis, done, nexec, launched, quota,
                   expect, staleUse, manualSince, stopSince>>

\* The end of the off-time as it would be if the loop of BlinkColor ran while
\* i <= blinkCount.
BlinkOffTimerExtraRound(e) ==
    /\ th[e].pc = "blinkOff" /\ th[e].sc = 0
    /\ local[e] = 0
    /\ mutex = NoOne
    /\ LET n == BlinkCountOf(th[e].kind) IN
       th' = [th EXCEPT ![e] =
                IF ~effectActive THEN ExitOff(@, "blinkRet")
                ELSE IF n = 0 THEN [@ EXCEPT !.pc = "blinkSel"]
                ELSE IF th[e].i + 1 <= n THEN [@ EXCEPT !.pc = "blinkSel", !.i = th[e].i + 1]
                ELSE [@ EXCEPT !.pc = "blinkRet", !.i = 0, !.ret = "nil"]]
    /\ UNCHANGED <<ledEnabled, effectActive, currentEffectType, mutex,
                   stopChan, chans, hw, lis, local, done, nexec, launched,
                   quota, expect, staleUse, manualSince, stopSince>>

\* BlinkColor, lines 406-420 and 355: the off-time is over, effectActive is
\* read, and the next round starts unless blinkCount rounds are done.
BlinkOffTimer(e) ==
    /\ th[e].pc = "blinkOff" /\ th[e].sc = 0
    /\ local[e] = 0
    /\ mutex = NoOne
    /\ LET n == BlinkCountOf(th[e].kind) IN
       th' = [th EXCEPT ![e] =
                IF ~effectActive THEN ExitOff(@, "blinkRet")
                ELSE IF n = 0 THEN [@ EXCEPT !.pc = "blinkSel"]
                ELSE IF th[e].i + 1 < n THEN [@ EXCEPT !.pc = "blinkSel", !.i = th[e].i + 1]
                ELSE [@ EXCEPT !.pc = "blinkRet", !.i = 0, !.ret = "nil"]]
    /\ UNCHANGED <<ledEnabled, effectActive, currentEffectType, mutex,
                   stopChan, chans, hw, lis, local, done, nexec, launched,
                   quota, expect, staleUse, manualSince, stopSince>>

\* BluetoothFailedEffect, lines 885-886: BlinkColor has returned.
BlinkReturn(e) ==
    /\ th[e].pc = "blinkRet" /\ th[e].sc = 0
    /\ th' = [th EXCEPT ![e] = [CallSetColor(@, ColorOff, "effRet")
                                  EXCEPT !.i = 0, !.ret = "none"]]
    /\ UNCHANGED <<ledEnabled, effectActive, currentEffectType, mutex,
                   stopChan, chans, hw, lis, local, done, nexec, launched,
                   quota, expect, staleUse, manualSince, stopSince>>

\* ------------------------------------------------------------- FadeColor
\* FadeColor, lines 191-202: the number of steps for a duration d (ns).
FadeSteps(d) ==
    IF d \div FadeDefaultSteps > FadeMaxStep
    THEN IF d \div FadeMaxStep < FadeMinSteps THEN FadeMinSteps ELSE d \div FadeMaxStep
    ELSE FadeDefaultSteps

\* FadeColor, lines 192-200: the duration of one step.
FadeStepDuration(d) == d \div FadeSteps(d)

\* The number of steps of a fade run by an effect task.
TaskFadeSteps(d) == Min(FadeSteps(d), MaxFadeSteps)

\* The color of a step as it would be if progress were (step+1)/steps.
FadeValueAhead(from, to, step, steps) ==
    (from * steps + (step + 1) * (to - from)) \div steps

\* FadeColor, lines 223-228: the color of a step out of steps; the conversion
\* to int truncates from + progress*(to-from), which is not negative.
\* For the channel values and step counts used here the float64 arithmetic of
\* the source gives exactly this quotient; for some other arguments its
\* rounding gives one less (0 to 50 at step 29 of 50 gives 28).
FadeValue(from, to, step, steps) == (from * steps + step * (to - from)) \div steps
FadeAt(from, to, step, steps) ==
    [n \in 1..3 |-> FadeValue(from[n], to[n], step, steps)]

\* NotificationEffect, lines 463-473: PulseColor(ColorGreen, 0, 2s), then
\* setColor(ColorOff).
PulseColorOf(k) == ColorGreen
PulseCountOf(k) == NotificationPulseCount
PulseDurationOf(k) == NotificationPulseDuration
\* PulseColor, line 274.
HalfDuration(k) == PulseDurationOf(k) \div 2

\* The arguments of the FadeColor that PulseColor runs in phase ph (1: line
\* 301, off to color; 2: line 330, color to off).
FadeFrom(r) == IF r.ph = 1 THEN ColorOff ELSE PulseColorOf(r.kind)
FadeTo(r) == IF r.ph = 1 THEN PulseColorOf(r.kind) ELSE ColorOff

\* FadeColor, line 204: all steps are done and FadeColor returns nil.
FadeLoopEnd(e) ==
    /\ th[e].pc = "fadeSel" /\ th[e].sc = 0
    /\ th[e].step > TaskFadeSteps(HalfDuration(th[e].kind))
    /\ th' = [th EXCEPT ![e] = [@ EXCEPT !.pc = "fadeRet", !.ret = "nil", !.step = 0]]
    /\ UNCHANGED <<ledEnabled, effectActive, currentEffectType, mutex,
                   stopChan, chans, hw, lis, local, done, nexec, launched,
                   quota, expect, staleUse, manualSince, stopSince>>

\* FadeColor, lines 206-211: the stop signal is there at the top of a step.
FadeSelStop(e) ==
    /\ th[e].pc = "fadeSel" /\ th[e].sc = 0
    /\ th[e].step <= TaskFadeSteps(HalfDuration(th[e].kind))
    /\ TakeStop(e)
    /\ th' = [th EXCEPT ![e] = 
                [ExitOff(@, "fadeRet") EXCEPT !.step = 0, !.took = TRUE]]
    /\ UNCHANGED <<ledEnabled, effectActive, currentEffectType, mutex,
                   stopChan, chans, hw, lis, done, nexec, launched, quota,
                   expect, staleUse, manualSince, stopSince>>

\* FadeColor, line 212: no stop signal, the default case is taken.
FadeSelDefault(e) ==
    /\ th[e].pc = "fadeSel" /\ th[e].sc = 0
    /\ th[e].step <= TaskFadeSteps(HalfDuration(th[e].kind))
    /\ local[e] = 0
    /\ th' = [th EXCEPT ![e] = [@ EXCEPT !.pc = "fadeAct"]]
    /\ UNCHANGED <<ledEnabled, effectActive, currentEffectType, mutex,
                   stopChan, chans, hw, lis, local, done, nexec, launched,
                   quota, expect, staleUse, manualSince, stopSince>>

\* FadeColor, lines 214-230 and 237: effectActive is read under the mutex; the
\* interpolated color is set if it is true.
FadeAct(e) ==
    /\ th[e].pc = "fadeAct"
    /\ mutex = NoOne
    /\ LET d == HalfDuration(th[e].kind)
           c == FadeAt(FadeFrom(th[e]), FadeTo(th[e]), th[e].step, TaskFadeSteps(d))
       IN th' = [th EXCEPT ![e] =
                   IF ~effectActive THEN [ExitOff(@, "fadeRet") EXCEPT !.step = 0]
                   ELSE [CallSetColor(@, c, "fadeWait") EXCEPT !.rem = FadeStepDuration(d)]]
    /\ UNCHANGED <<ledEnabled, effectActive, currentEffectType, mutex,
                   stopChan, chans, hw, lis, local, done, nexec, launched,
                   quota, expect, staleUse, manualSince, stopSince>>

\* FadeColor, lines 230-234: setColor returned an error; setColor(ColorOff) and
\* the error is returned.
FadeSetError(e) ==
    /\ th[e].pc = "fadeWait" /\ th[e].sc = 0
    /\ th[e].err
    /\ th' = [th EXCEPT ![e] = [CallSetColor(@, ColorOff, "fadeRet")
                                  EXCEPT !.ret = "err", !.step = 0, !.rem = 0]]
    /\ UNCHANGED <<ledEnabled, effectActive, currentEffectType, mutex,
                   stopChan, chans, hw, lis, local, done, nexec, launched,
                   quota, expect, staleUse, manualSince, stopSince>>

\* A stop signal during a sub-wait of FadeColor as it would be if FadeColor
\* returned without setColor(ColorOff).
FadeWaitStopNoOff(e) ==
    /\ th[e].pc = "fadeWait" /\ th[e].sc = 0
    /\ ~th[e].err
    /\ th[e].rem > 0
    /\ TakeStop(e)
    /\ th' = [th EXCEPT ![e] =
                [@ EXCEPT !.pc = "fadeRet", !.ret = "nil", !.step = 0, !.rem = 0,
                          !.took = TRUE]]
    /\ UNCHANGED <<ledEnabled, effectActive, currentEffectType, mutex,
                   stopChan, chans, hw, lis, done, nexec, launched, quota,
                   expect, staleUse, manualSince, stopSince>>

\* FadeColor, lines 244-248: a stop signal during a sub-wait.
FadeWaitStop(e) ==
    /\ th[e].pc = "fadeWait" /\ th[e].sc = 0
    /\ ~th[e].err
    /\ th[e].rem > 0
    /\ TakeStop(e)
    /\ th' = [th EXCEPT ![e] = 
                [ExitOff(@, "fadeRet") EXCEPT !.step = 0, !.rem = 0, !.took = TRUE]]
    /\ UNCHANGED <<ledEnabled, effectActive, currentEffectType, mutex,
                   stopChan, chans, hw, lis, done, nexec, launched, quota,
                   expect, staleUse, manualSince, stopSince>>

\* FadeColor, lines 238-260: a sub-wait of min(remainingTime, 10ms) is over and
\* effectActive is read under the mutex; after the last sub-wait the next step
\* begins.
FadeWaitTimer(e) ==
    /\ th[e].pc = "fadeWait" /\ th[e].sc = 0
    /\ ~th[e].err
    /\ th[e].rem > 0
    /\ local[e] = 0
    /\ mutex = NoOne
    /\ LET left == th[e].rem - Min(th[e].rem, FadeSubWait) IN
       th' = [th EXCEPT ![e] =
                IF ~effectActive
                THEN [ExitOff(@, "fadeRet") EXCEPT !.step = 0, !.rem = 0]
                ELSE IF left > 0 THEN [@ EXCEPT !.rem = left]
                ELSE [@ EXCEPT !.rem = 0, !.step = th[e].step + 1, !.pc = "fadeSel"]]
    /\ UNCHANGED <<ledEnabled, effectActive, currentEffectType, mutex,
                   stopChan, chans, hw, lis, local, done, nexec, launched,
                   quota, expect, staleUse, manualSince, stopSince>>

\* ------------------------------------------------------------ PulseColor
\* PulseColor, lines 279-283 and 308-312: the stop signal is there at the top
\* of a cycle (pulseSel) or between its two fades (pulseMid).
PulseSelStop(e) ==
    /\ th[e].pc \in {"pulseSel", "pulseMid"}
    /\ th[e].pc = "pulseSel" =>
          PulseCountOf(th[e].kind) = 0 \/ th[e].i < PulseCountOf(th[e].kind)
    /\ TakeStop(e)
    /\ th' = [th EXCEPT ![e] = 
                [ExitOff(@, "pulseRet") EXCEPT !.took = TRUE]]
    /\ UNCHANGED <<ledEnabled, effectActive, currentEffectType, mutex,
                   stopChan, chans, hw, lis, done, nexec, launched, quota,
                   expect, staleUse, manualSince, stopSince>>

\* PulseColor, lines 284 and 313: no stop signal, the default case is taken.
PulseSelDefault(e) ==
    /\ th[e].pc \in {"pulseSel", "pulseMid"}
    /\ th[e].pc = "pulseSel" =>
          PulseCountOf(th[e].kind) = 0 \/ th[e].i < PulseCountOf(th[e].kind)
    /\ local[e] = 0
    /\ th' = [th EXCEPT ![e] =
                [@ EXCEPT !.pc = IF th[e].pc = "pulseSel" THEN "pulseAct"
                                 ELSE "pulseMidAct"]]
    /\ UNCHANGED <<ledEnabled, effectActive, currentEffectType, mutex,
                   stopChan, chans, hw, lis, local, done, nexec, launched,
                   quota, expect, staleUse, manualSince, stopSince>>

\* PulseColor, lines 286-301 and 315-330: effectActive is read under the mutex;
\* FadeColor is called if it is true (off to color first, color to off second).
PulseAct(e) ==
    /\ th[e].pc \in {"pulseAct", "pulseMidAct"}
    /\ mutex = NoOne
    /\ th' = [th EXCEPT ![e] =
                IF ~effectActive THEN ExitOff(@, "pulseRet")
                ELSE [@ EXCEPT !.pc = "fadeSel", !.step = 0,
                               !.ph = IF th[e].pc = "pulseAct" THEN 1 ELSE 2]]
    /\ UNCHANGED <<ledEnabled, effectActive, currentEffectType, mutex,
                   stopChan, chans, hw, lis, local, done, nexec, launched,
                   quota, expect, staleUse, manualSince, stopSince>>

\* PulseColor, lines 301-305 and 330-334: FadeColor returned an error;
\* setColor(ColorOff) and the error is returned.
PulseFadeError(e) ==
    /\ th[e].pc = "fadeRet" /\ th[e].sc = 0
    /\ th[e].ret = "err"
    /\ th' = [th EXCEPT ![e] = [CallSetColor(@, ColorOff, "pulseRet") EXCEPT !.ph = 0]]
    /\ UNCHANGED <<ledEnabled, effectActive, currentEffectType, mutex,
                   stopChan, chans, hw, lis, local, done, nexec, launched,
                   quota, expect, staleUse, manualSince, stopSince>>

\* PulseColor, lines 301 and 308: the first FadeColor returned nil.
PulseFadeUpDone(e) ==
    /\ th[e].pc = "fadeRet" /\ th[e].sc = 0
    /\ th[e].ret = "nil"
    /\ th[e].ph = 1
    /\ th' = [th EXCEPT ![e] = [@ EXCEPT !.pc = "pulseMid", !.ph = 0, !.ret = "none"]]
    /\ UNCHANGED <<ledEnabled, effectActive, currentEffectType, mutex,
                   stopChan, chans, hw, lis, local, done, nexec, launched,
                   quota, expect, staleUse, manualSince, stopSince>>

\* PulseColor, lines 330-345 and 276: the second FadeColor returned nil;
\* effectActive is read under the mutex and the next cycle begins.
PulseFadeDownDone(e) ==
    /\ th[e].pc = "fadeRet" /\ th[e].sc = 0
    /\ th[e].ret = "nil"
    /\ th[e].ph = 2
    /\ mutex = NoOne
    /\ th' = [th EXCEPT ![e] =
                IF ~effectActive THEN [ExitOff(@, "pulseRet") EXCEPT !.ph = 0]
                ELSE [@ EXCEPT !.pc = "pulseSel", !.ph = 0, !.ret = "none",
                               !.i = IF PulseCountOf(th[e].kind) = 0 THEN 0
                                     ELSE th[e].i + 1]]
    /\ UNCHANGED <<ledEnabled, effectActive, currentEffectType, mutex,
                   stopChan, chans, hw, lis, local, done, nexec, launched,
                   quota, expect, staleUse, manualSince, stopSince>>

\* NotificationEffect, lines 465-472: PulseColor has returned.
PulseReturn(e) ==
    /\ th[e].pc = "pulseRet" /\ th[e].sc = 0
    /\ th' = [th EXCEPT ![e] = [CallSetColor(@, ColorOff, "effRet")
                                  EXCEPT !.i = 0, !.ret = "none"]]
    /\ UNCHANGED <<ledEnabled, effectActive, currentEffectType, mutex,
                   stopChan, chans, hw, lis, local, done, nexec, launched,
                   quota, expect, staleUse, manualSince, stopSince>>

\* ------------------------------------------------------------------ Next
CallerNext ==
    \/ StopCurrentEffect
    \/ \E b \in BOOLEAN : SetLEDEnabled(b)
    \/ \E c \in ManualColors : SetRGB(c)
    \/ \E v \in ManualValues : SetRed(v) \/ SetGreen(v) \/ SetBlue(v)
    \/ \E k \in quota.start : StartEffect(k)
    \/ StartEffectLockIdle
    \/ StartEffectLockBusy
    \/ StartEffectWake
    \/ \E k \in quota.direct : DirectEffect(k)

ExecNext(e) ==
    \/ runTimedEffectIdle(e)
    \/ runTimedEffectBusy(e)
    \/ runTimedEffectWake(e)
    \/ ListenerReceive(e)
    \/ ListenerRelay(e)
    \/ ListenerDone(e)
    \/ ListenerTimeoutExit(e)
    \/ ListenerReload(e)
    \/ runTimedEffectOff(e)
    \/ runTimedEffectClose(e)
    \/ runTimedEffectFinal(e)
    \/ CallOnStop(e)
    \/ CallOnTimer(e)
    \/ CallOffStop(e)
    \/ CallOffTimer(e)
    \/ BlinkSelStop(e)
    \/ BlinkSelDefault(e)
    \/ BlinkAct(e)
    \/ BlinkOnStop(e)
    \/ BlinkOnTimer(e)
    \/ BlinkOffStop(e)
    \/ BlinkOffTimer(e)
    \/ BlinkReturn(e)
    \/ FadeLoopEnd(e)
    \/ FadeSelStop(e)
    \/ FadeSelDefault(e)
    \/ FadeAct(e)
    \/ FadeSetError(e)
    \/ FadeWaitStop(e)
    \/ FadeWaitTimer(e)
    \/ PulseSelStop(e)
    \/ PulseSelDefault(e)
    \/ PulseAct(e)
    \/ PulseFadeError(e)
    \/ PulseFadeUpDone(e)
    \/ PulseFadeDownDone(e)
    \/ PulseReturn(e)

ColorNext(t) ==
    \/ setColorEnter(t)
    \/ setChannelGate(t)
    \/ setChannelWrite(t)
    \/ setChannelWriteFail(t)

Next ==
    \/ CallerNext
    \/ \E e \in Execs : ExecNext(e)
    \/ \E t \in Threads : ColorNext(t)

Spec == Init /\ [][Next]_vars

\* ------------------------------------------------- scheduling assumptions
\* The stop scenario on its own, with what the Go runtime guarantees: every
\* goroutine that can take a step takes one and every timer fires.  The host
\* is free to make its calls or not.  The scenario runs CallNotificationEffect
\* only and never calls StartEffect, so the steps of the other effect functions
\* are left out, and so are those of a listener that finds stopChan replaced
\* or effectDone closed (an unbounded effect returns only after its own
\* listener has relayed a signal and gone).
StopInit == Init /\ quota = StopScenario

TaskStep(e) ==
    \/ runTimedEffectIdle(e)
    \/ runTimedEffectBusy(e)
    \/ runTimedEffectWake(e)
    \/ runTimedEffectOff(e)
    \/ runTimedEffectClose(e)
    \/ runTimedEffectFinal(e)
    \/ CallOnStop(e)
    \/ CallOnTimer(e)
    \/ CallOffStop(e)
    \/ CallOffTimer(e)
    \/ setColorEnter(e)
    \/ setChannelGate(e)
    \/ setChannelWrite(e)

ListenerStep(e) ==
    \/ ListenerReceive(e)
    \/ ListenerRelay(e)
    \/ ListenerTimeoutExit(e)

StopNext ==
    \/ StopCurrentEffect
    \/ \E k \in quota.direct : DirectEffect(k)
    \/ \E e \in Execs : TaskStep(e) \/ ListenerStep(e)

StopFairness ==
    \A e \in Execs :
        /\ WF_vars(TaskStep(e))
        /\ WF_vars(ListenerStep(e))

SpecStop == StopInit /\ [][StopNext]_vars /\ StopFairness

\* One finite effect started with StartEffect and no other call, under the
\* same scheduling guarantees; the host's StartEffect call, once made, runs
\* to its return.  StartEffect finds no effect active, and runTimedEffect then
\* finds the record StartEffect has just set; the listener always finds a
\* signal or the closed effectDone before its timeout.  The steps of the other
\* cases are left out.
FiniteInit == Init /\ quota = FiniteScenario

FiniteTaskStep(e) ==
    \/ runTimedEffectBusy(e)
    \/ runTimedEffectWake(e)
    \/ runTimedEffectOff(e)
    \/ runTimedEffectClose(e)
    \/ runTimedEffectFinal(e)
    \/ BlinkSelStop(e)
    \/ BlinkSelDefault(e)
    \/ BlinkAct(e)
    \/ BlinkOnStop(e)
    \/ BlinkOnTimer(e)
    \/ BlinkOffStop(e)
    \/ BlinkOffTimer(e)
    \/ BlinkReturn(e)
    \/ setColorEnter(e)
    \/ setChannelGate(e)
    \/ setChannelWrite(e)

FiniteListenerStep(e) ==
    \/ ListenerReceive(e)
    \/ ListenerRelay(e)
    \/ ListenerDone(e)

FiniteNext ==
    \/ \E k \in quota.start : StartEffect(k)
    \/ StartEffectLockIdle
    \/ \E e \in Execs : FiniteTaskStep(e) \/ FiniteListenerStep(e)

FiniteFairness ==
    /\ WF_vars(StartEffectLockIdle)
    /\ \A e \in Execs :
          /\ WF_vars(FiniteTaskStep(e))
          /\ WF_vars(FiniteListenerStep(e))

SpecFinite == FiniteInit /\ [][FiniteNext]_vars /\ FiniteFairness

\* Two effects of different kinds started with StartEffect one after the other
\* and no other call: StartEffect(EFFECT_BLUETOOTH_FAILED), and once it has
\* returned StartEffect(EFFECT_CALL).  The goroutines the two calls start are
\* scheduled freely.  No listener finds stopChan replaced after a timeout (a
\* signal is sent on the old channel before it is replaced), so that step is
\* left out.
TwoStartScenario ==
    [execs |-> MaxPreempt, others |-> 0, stops |-> 0, toggles |-> 0, manuals |-> 0,
     iofails |-> 0, start |-> {EFFECT_BLUETOOTH_FAILED, EFFECT_CALL},
     direct |-> {}]

TwoStartInit ==
    /\ ledEnabled = TRUE
    /\ effectActive = FALSE
    /\ currentEffectType = EFFECT_NONE
    /\ mutex = NoOne
    /\ stopChan = 0
    /\ chans = [c \in 0..MaxExec |-> <<>>]
    /\ hw = ColorOff
    /\ th = [t \in Threads |-> IF t = Caller THEN [Blank EXCEPT !.pc = "idle"] ELSE Blank]
    /\ lis = [e \in Execs |-> BlankLis]
    /\ local = [e \in Execs |-> 0]
    /\ done = [e \in Execs |-> FALSE]
    /\ nexec = 0
    /\ launched = 0
    /\ quota = TwoStartScenario
    /\ expect = NoExpect
    /\ staleUse = FALSE
    /\ manualSince = FALSE
    /\ stopSince = "no"

TwoStartTaskStep(e) ==
    \/ runTimedEffectIdle(e)
    \/ runTimedEffectBusy(e)
    \/ runTimedEffectWake(e)
    \/ runTimedEffectOff(e)
    \/ runTimedEffectClose(e)
    \/ runTimedEffectFinal(e)
    \/ CallOnStop(e)
    \/ CallOnTimer(e)
    \/ CallOffStop(e)
    \/ CallOffTimer(e)
    \/ BlinkSelStop(e)
    \/ BlinkSelDefault(e)
    \/ BlinkAct(e)
    \/ BlinkOnStop(e)
    \/ BlinkOnTimer(e)
    \/ BlinkOffStop(e)
    \/ BlinkOffTimer(e)
    \/ BlinkReturn(e)
    \/ setColorEnter(e)
    \/ setChannelGate(e)
    \/ setChannelWrite(e)

TwoStartListenerStep(e) ==
    \/ ListenerReceive(e)
    \/ ListenerRelay(e)
    \/ ListenerDone(e)
    \/ ListenerTimeoutExit(e)

TwoStartNext ==
    \/ nexec = 0 /\ StartEffect(EFFECT_BLUETOOTH_FAILED)
    \/ nexec = 1 /\ StartEffect(EFFECT_CALL)
    \/ StartEffectLockIdle
    \/ StartEffectLockBusy
    \/ StartEffectWake
    \/ \E e \in Execs : TwoStartTaskStep(e) \/ TwoStartListenerStep(e)

SpecTwoStart == TwoStartInit /\ [][TwoStartNext]_vars

\* A finite effect with the LED disabled: the host calls
\* BluetoothFailedEffect() once and SetLEDEnabled(false) once, in either order
\* and at any moment, and makes no other call.  Every step of the task and of
\* its listener is taken eventually; there is no stop signal, so the steps
\* that take one are left out.
MutedScenario ==
    [execs |-> 1, others |-> 0, stops |-> 0, toggles |-> 1, manuals |-> 0,
     iofails |-> 0, start |-> {}, direct |-> {EFFECT_BLUETOOTH_FAILED}]

MutedInit ==
    /\ ledEnabled = TRUE
    /\ effectActive = FALSE
    /\ currentEffectType = EFFECT_NONE
    /\ mutex = NoOne
    /\ stopChan = 0
    /\ chans = [c \in 0..MaxExec |-> <<>>]
    /\ hw = ColorOff
    /\ th = [t \in Threads |-> IF t = Caller THEN [Blank EXCEPT !.pc = "idle"] ELSE Blank]
    /\ lis = [e \in Execs |-> BlankLis]
    /\ local = [e \in Execs |-> 0]
    /\ done = [e \in Execs |-> FALSE]
    /\ nexec = 0
    /\ launched = 0
    /\ quota = MutedScenario
    /\ expect = NoExpect
    /\ staleUse = FALSE
    /\ manualSince = FALSE
    /\ stopSince = "no"

MutedTaskStep(e) ==
    \/ runTimedEffectIdle(e)
    \/ runTimedEffectOff(e)
    \/ runTimedEffectClose(e)
    \/ runTimedEffectFinal(e)
    \/ BlinkSelDefault(e)
    \/ BlinkAct(e)
    \/ BlinkOnTimer(e)
    \/ BlinkOffTimer(e)
    \/ BlinkReturn(e)
    \/ setColorEnter(e)
    \/ setChannelGate(e)
    \/ setChannelWrite(e)

MutedNext ==
    \/ SetLEDEnabled(FALSE)
    \/ \E k \in quota.direct : DirectEffect(k)
    \/ \E e \in Execs : MutedTaskStep(e) \/ ListenerDone(e)

MutedFairness ==
    \A e \in Execs : WF_vars(MutedTaskStep(e)) /\ WF_vars(ListenerDone(e))

SpecMuted == MutedInit /\ [][MutedNext]_vars /\ MutedFairness

\* The two effects made of one BlinkColor: the host calls
\* BluetoothFailedEffect() (three rounds) or BluetoothConnectingEffect()
\* (rounds without end) once, and may call StopCurrentEffect once.
BlinkScenario ==
    [execs |-> 1, others |-> 0, stops |-> MaxStops, toggles |-> 0, manuals |-> 0,
     iofails |-> 0, start |-> {},
     direct |-> {EFFECT_BLUETOOTH_FAILED, EFFECT_BLUETOOTH_CONNECTING}]

BlinkInit ==
    /\ ledEnabled = TRUE
    /\ effectActive = FALSE
    /\ currentEffectType = EFFECT_NONE
    /\ mutex = NoOne
    /\ stopChan = 0
    /\ chans = [c \in 0..MaxExec |-> <<>>]
    /\ hw = ColorOff
    /\ th = [t \in Threads |-> IF t = Caller THEN [Blank EXCEPT !.pc = "idle"] ELSE Blank]
    /\ lis = [e \in Execs |-> BlankLis]
    /\ local = [e \in Execs |-> 0]
    /\ done = [e \in Execs |-> FALSE]
    /\ nexec = 0
    /\ launched = 0
    /\ quota = BlinkScenario
    /\ expect = NoExpect
    /\ staleUse = FALSE
    /\ manualSince = FALSE
    /\ stopSince = "no"

BlinkTaskStep(e) ==
    \/ runTimedEffectIdle(e)
    \/ runTimedEffectOff(e)
    \/ runTimedEffectClose(e)
    \/ runTimedEffectFinal(e)
    \/ BlinkSelStop(e)
    \/ BlinkSelDefault(e)
    \/ BlinkAct(e)
    \/ BlinkOnStop(e)
    \/ BlinkOnTimer(e)
    \/ BlinkOffStop(e)
    \/ BlinkOffTimer(e)
    \/ BlinkReturn(e)
    \/ setColorEnter(e)
    \/ setChannelGate(e)
    \/ setChannelWrite(e)

BlinkListenerStep(e) ==
    \/ ListenerReceive(e)
    \/ ListenerRelay(e)
    \/ ListenerDone(e)

BlinkNext ==
    \/ StopCurrentEffect
    \/ \E k \in quota.direct : DirectEffect(k)
    \/ \E e \in Execs : BlinkTaskStep(e) \/ BlinkListenerStep(e)

SpecBlink == BlinkInit /\ [][BlinkNext]_vars

\* ------------------------------------------------- FadeColor, step by step
\* FadeColor(from, to, duration, stop) with every step and every sub-wait of
\* its loop, called by the task of an effect that is on record.  The arguments
\* and the locals of the call are in the record of the task, with the time it
\* has slept so far (waited, and stepWaited for the current step) and the
\* number of colors it has written.  setColor is one step here: the colors are
\* in range and the brightness files take every write.
\* The arguments: the fades of PulseColor in NotificationEffect (1s) and
\* WiFiConnectingEffect (1.25s), a short one and an empty one, between off
\* and green, and between two colors that differ in every channel.
FadeDurations == {0, 7000000, HalfDuration(EFFECT_NOTIFICATION), 1250000000}
FadeColorPairs == {<<ColorOff, ColorGreen>>, <<ColorGreen, ColorOff>>,
                   <<<<10, 200, 128>>, <<250, 5, 128>>>>}
FadeScenario ==
    [execs |-> 0, others |-> 0, stops |-> MaxStops, toggles |-> 0,
     manuals |-> 0, iofails |-> 0, start |-> {}, direct |-> {}]

FadeFrame(from, to, duration) ==
    [Blank EXCEPT !.pc = "fadeCall", !.kind = EFFECT_NOTIFICATION, !.lidx = 1]
    @@ [from |-> from, to |-> to, duration |-> duration, steps |-> 0,
        stepDuration |-> 0, waited |-> 0, stepWaited |-> 0, written |-> 0]

FadeInit ==
    /\ ledEnabled = TRUE
    /\ effectActive = TRUE
    /\ currentEffectType = EFFECT_NOTIFICATION
    /\ mutex = NoOne
    /\ stopChan = 0
    /\ chans = [c \in 0..MaxExec |-> <<>>]
    /\ hw = ColorOff
    /\ \E p \in FadeColorPairs, d \in FadeDurations :
          th = [t \in Threads |->
                  IF t = Caller THEN [Blank EXCEPT !.pc = "idle"]
                  ELSE IF t = 1 THEN FadeFrame(p[1], p[2], d)
                  ELSE Blank]
    /\ lis = [e \in Execs |-> IF e = 1 THEN [BlankLis EXCEPT !.pc = "listen"]
                              ELSE BlankLis]
    /\ local = [e \in Execs |-> 0]
    /\ done = [e \in Execs |-> FALSE]
    /\ nexec = 1
    /\ launched = 1
    /\ quota = FadeScenario
    /\ expect = NoExpect
    /\ staleUse = FALSE
    /\ manualSince = FALSE
    /\ stopSince = "no"

\* setColor(c), lines 157-180, for a color in range: the three files are
\* written unless the LED is disabled.
SetColorNow(c) == hw' = IF ledEnabled THEN c ELSE hw

\* FadeColor, lines 191-202: steps and stepDuration.
FadeColorBegin(e) ==
    /\ th[e].pc = "fadeCall"
    /\ th' = [th EXCEPT ![e] =
                [@ EXCEPT !.steps = FadeSteps(th[e].duration),
                          !.stepDuration = FadeStepDuration(th[e].duration),
                          !.step = 0, !.pc = "fadeTop", !.ret = "none",
                          !.waited = 0, !.stepWaited = 0, !.written = 0]]
    /\ UNCHANGED <<ledEnabled, effectActive, currentEffectType, mutex,
                   stopChan, chans, hw, lis, local, done, nexec, launched,
                   quota, expect, staleUse, manualSince, stopSince>>

\* FadeColor, lines 206-211: the stop signal is there at the top of a step.
FadeColorTopStop(e) ==
    /\ th[e].pc = "fadeTop"
    /\ th[e].step <= th[e].steps
    /\ TakeStop(e)
    /\ SetColorNow(ColorOff)
    /\ th' = [th EXCEPT ![e] = [@ EXCEPT !.pc = "fadeDone", !.ret = "nil",
                                         !.col = ColorOff, !.took = TRUE]]
    /\ UNCHANGED <<ledEnabled, effectActive, currentEffectType, mutex,
                   stopChan, chans, lis, done, nexec, launched, quota,
                   expect, staleUse, manualSince, stopSince>>

\* FadeColor, lines 212-237: no stop signal; effectActive is read under the
\* mutex, the color of the step is computed and set, and remainingTime starts
\* at stepDuration.
FadeColorStep(e) ==
    /\ th[e].pc = "fadeTop"
    /\ th[e].step <= th[e].steps
    /\ local[e] = 0
    /\ mutex = NoOne
    /\ IF ~effectActive
       THEN /\ SetColorNow(ColorOff)
            /\ th' = [th EXCEPT ![e] = [@ EXCEPT !.pc = "fadeDone", !.ret = "nil",
                                                 !.col = ColorOff]]
       ELSE LET c == FadeAt(th[e].from, th[e].to, th[e].step, th[e].steps) IN
            /\ SetColorNow(c)
            /\ th' = [th EXCEPT ![e] =
                        IF th[e].stepDuration > 0
                        THEN [@ EXCEPT !.col = c, !.written = @ + 1,
                                       !.rem = th[e].stepDuration,
                                       !.stepWaited = 0, !.pc = "fadeSleep"]
                        ELSE [@ EXCEPT !.col = c, !.written = @ + 1,
                                       !.rem = 0, !.stepWaited = 0,
                                       !.step = @ + 1]]
    /\ UNCHANGED <<ledEnabled, effectActive, currentEffectType, mutex,
                   stopChan, chans, lis, local, done, nexec, launched, quota,
                   expect, staleUse, manualSince, stopSince>>

\* FadeColor, lines 244-248: a stop signal during a sub-wait.
FadeColorSleepStop(e) ==
    /\ th[e].pc = "fadeSleep"
    /\ TakeStop(e)
    /\ SetColorNow(ColorOff)
    /\ th' = [th EXCEPT ![e] = [@ EXCEPT !.pc = "fadeDone", !.ret = "nil",
                                         !.col = ColorOff, !.took = TRUE]]
    /\ UNCHANGED <<ledEnabled, effectActive, currentEffectType, mutex,
                   stopChan, chans, lis, done, nexec, launched, quota,
                   expect, staleUse, manualSince, stopSince>>

\* The length of the next sub-wait as it would be if the wait of a step were
\* slept in one piece.
SleepTimeWhole(remainingTime) == remainingTime

\* The length of the next sub-wait, lines 239-242.
SleepTime(remainingTime) == Min(remainingTime, FadeSubWait)

\* FadeColor, lines 238-262: a sub-wait of sleepTime is over, effectActive is
\* read under the mutex, and remainingTime goes down by sleepTime; at 0 the
\* next step begins.
FadeColorSubWait(e) ==
    /\ th[e].pc = "fadeSleep"
    /\ local[e] = 0
    /\ mutex = NoOne
    /\ LET sleepTime == SleepTime(th[e].rem) IN
       IF ~effectActive
       THEN /\ SetColorNow(ColorOff)
            /\ th' = [th EXCEPT ![e] =
                        [@ EXCEPT !.pc = "fadeDone", !.ret = "nil",
                                  !.col = ColorOff,
                                  !.waited = @ + sleepTime,
                                  !.stepWaited = @ + sleepTime]]
       ELSE /\ hw' = hw
            /\ th' = [th EXCEPT ![e] =
                        IF th[e].rem - sleepTime > 0
                        THEN [@ EXCEPT !.rem = @ - sleepTime,
                                       !.waited = @ + sleepTime,
                                       !.stepWaited = @ + sleepTime]
                        ELSE [@ EXCEPT !.rem = 0,
                                       !.waited = @ + sleepTime,
                                       !.stepWaited = @ + sleepTime,
                                       !.step = @ + 1, !.pc = "fadeTop"]]
    /\ UNCHANGED <<ledEnabled, effectActive, currentEffectType, mutex,
                   stopChan, chans, lis, local, done, nexec, launched, quota,
                   expect, staleUse, manualSince, stopSince>>

\* FadeColor, lines 204 and 266-267: the loop is over after the step numbered
\* steps, and FadeColor returns nil.
FadeColorEnd(e) ==
    /\ th[e].pc = "fadeTop"
    /\ th[e].step > th[e].steps
    /\ th' = [th EXCEPT ![e] = [@ EXCEPT !.pc = "fadeDone", !.ret = "nil"]]
    /\ UNCHANGED <<ledEnabled, effectActive, currentEffectType, mutex,
                   stopChan, chans, hw, lis, local, done, nexec, launched,
                   quota, expect, staleUse, manualSince, stopSince>>

\* The host may call StopCurrentEffect once; the stop listener of the task
\* relays the signal to the stop channel of FadeColor.
FadeNext ==
    \/ StopCurrentEffect
    \/ \E e \in Execs :
          \/ FadeColorBegin(e)
          \/ FadeColorTopStop(e)
          \/ FadeColorStep(e)
          \/ FadeColorSleepStop(e)
          \/ FadeColorSubWait(e)
          \/ FadeColorEnd(e)
          \/ ListenerReceive(e)
          \/ ListenerRelay(e)

SpecFade == FadeInit /\ [][FadeNext]_vars

\* ------------------------------------------------ PulseColor, cycle by cycle
\* PulseColor(color, pulseCount, pulseDuration, stop) called by the task of an
\* effect that is on record, with every step of the two FadeColor calls of a
\* cycle.  No stop signal is sent and effectActive stays true, so the cases of
\* the selects that take a signal are not among the steps.  The record of the
\* task holds the arguments, the loop variable i and the number of FadeColor
\* calls made (fades); with pulseCount 0 the loop does not look at i, and i
\* and fades are left at 0.
PulseCounts == {0, 1, 2}
PulseDurations == {0, 14000000, NotificationPulseDuration}
PulseColors == {ColorGreen, ColorRed}

PulseFrame(color, pulseCount, pulseDuration) ==
    [Blank EXCEPT !.pc = "pulseCall", !.kind = EFFECT_NOTIFICATION, !.lidx = 1]
    @@ [color |-> color, pulseCount |-> pulseCount,
        pulseDuration |-> pulseDuration, halfDuration |-> 0, fades |-> 0,
        from |-> ColorOff, to |-> ColorOff, duration |-> 0, steps |-> 0,
        stepDuration |-> 0, waited |-> 0, stepWaited |-> 0, written |-> 0]

PulseInit ==
    /\ ledEnabled = TRUE
    /\ effectActive = TRUE
    /\ currentEffectType = EFFECT_NOTIFICATION
    /\ mutex = NoOne
    /\ stopChan = 0
    /\ chans = [c \in 0..MaxExec |-> <<>>]
    /\ hw = ColorOff
    /\ \E c \in PulseColors, n \in PulseCounts, d \in PulseDurations :
          th = [t \in Threads |->
                  IF t = Caller THEN [Blank EXCEPT !.pc = "idle"]
                  ELSE IF t = 1 THEN PulseFrame(c, n, d)
                  ELSE Blank]
    /\ lis = [e \in Execs |-> IF e = 1 THEN [BlankLis EXCEPT !.pc = "listen"]
                              ELSE BlankLis]
    /\ local = [e \in Execs |-> 0]
    /\ done = [e \in Execs |-> FALSE]
    /\ nexec = 1
    /\ launched = 1
    /\ quota = [FadeScenario EXCEPT !.stops = 0]
    /\ expect = NoExpect
    /\ staleUse = FALSE
    /\ manualSince = FALSE
    /\ stopSince = "no"

\* The record of a task that calls FadeColor(from, to, duration) as the fade
\* number ph of a cycle.
CallFadeColor(r, from, to, duration, ph) ==
    [r EXCEPT !.pc = "fadeCall", !.from = from, !.to = to,
              !.duration = duration, !.ph = ph,
              !.fades = IF r.pulseCount = 0 THEN 0 ELSE @ + 1]

\* The record of a task whose PulseColor calls setColor(ColorOff) and returns
\* nil because effectActive is false.
PulseGivesUp(r) == [r EXCEPT !.pc = "pulseDone", !.ret = "nil", !.col = ColorOff]

\* PulseColor, line 274: halfDuration.
PulseColorBegin(e) ==
    /\ th[e].pc = "pulseCall"
    /\ th' = [th EXCEPT ![e] =
                [@ EXCEPT !.halfDuration = th[e].pulseDuration \div 2,
                          !.i = 0, !.fades = 0, !.pc = "pulseTop"]]
    /\ UNCHANGED <<ledEnabled, effectActive, currentEffectType, mutex,
                   stopChan, chans, hw, lis, local, done, nexec, launched,
                   quota, expect, staleUse, manualSince, stopSince>>

\* PulseColor, lines 276-301: the loop goes on, no stop signal is there,
\* effectActive is read under the mutex, and FadeColor(ColorOff, color,
\* halfDuration) is called.
PulseColorUp(e) ==
    /\ th[e].pc = "pulseTop"
    /\ th[e].pulseCount = 0 \/ th[e].i < th[e].pulseCount
    /\ local[e] = 0
    /\ mutex = NoOne
    /\ IF ~effectActive
       THEN SetColorNow(ColorOff) /\ th' = [th EXCEPT ![e] = PulseGivesUp(@)]
       ELSE /\ hw' = hw
            /\ th' = [th EXCEPT ![e] =
                        CallFadeColor(@, ColorOff, th[e].color,
                                      th[e].halfDuration, 1)]
    /\ UNCHANGED <<ledEnabled, effectActive, currentEffectType, mutex,
                   stopChan, chans, lis, local, done, nexec, launched, quota,
                   expect, staleUse, manualSince, stopSince>>

\* PulseColor, lines 301-330: the first FadeColor has returned nil, no stop
\* signal is there, effectActive is read under the mutex, and
\* FadeColor(color, ColorOff, halfDuration) is called.
PulseColorDown(e) ==
    /\ th[e].pc = "fadeDone" /\ th[e].ph = 1
    /\ th[e].ret = "nil"
    /\ local[e] = 0
    /\ mutex = NoOne
    /\ IF ~effectActive
       THEN SetColorNow(ColorOff) /\ th' = [th EXCEPT ![e] = PulseGivesUp(@)]
       ELSE /\ hw' = hw
            /\ th' = [th EXCEPT ![e] =
                        CallFadeColor(@, th[e].color, ColorOff,
                                      th[e].halfDuration, 2)]
    /\ UNCHANGED <<ledEnabled, effectActive, currentEffectType, mutex,
                   stopChan, chans, lis, local, done, nexec, launched, quota,
                   expect, staleUse, manualSince, stopSince>>

\* PulseColor, lines 330-345 and 276: the second FadeColor has returned nil,
\* effectActive is read under the mutex, and i++.
PulseColorCycleEnd(e) ==
    /\ th[e].pc = "fadeDone" /\ th[e].ph = 2
    /\ th[e].ret = "nil"
    /\ mutex = NoOne
    /\ IF ~effectActive
       THEN SetColorNow(ColorOff) /\ th' = [th EXCEPT ![e] = PulseGivesUp(@)]
       ELSE /\ hw' = hw
            /\ th' = [th EXCEPT ![e] =
                        [@ EXCEPT !.pc = "pulseTop", !.ph = 0, !.ret = "none",
                                  !.i = IF th[e].pulseCount = 0 THEN 0 ELSE @ + 1]]
    /\ UNCHANGED <<ledEnabled, effectActive, currentEffectType, mutex,
                   stopChan, chans, lis, local, done, nexec, launched, quota,
                   expect, staleUse, manualSince, stopSince>>

\* The end of the loop as it would be if PulseColor ran while i+1 < pulseCount.
PulseColorEndEarly(e) ==
    /\ th[e].pc = "pulseTop"
    /\ ~(th[e].pulseCount = 0 \/ th[e].i + 1 < th[e].pulseCount)
    /\ th' = [th EXCEPT ![e] = [@ EXCEPT !.pc = "pulseDone", !.ret = "nil"]]
    /\ UNCHANGED <<ledEnabled, effectActive, currentEffectType, mutex,
                   stopChan, chans, hw, lis, local, done, nexec, launched,
                   quota, expect, staleUse, manualSince, stopSince>>

\* PulseColor, lines 276 and 347-348: i has reached pulseCount and PulseColor
\* returns nil.
PulseColorEnd(e) ==
    /\ th[e].pc = "pulseTop"
    /\ ~(th[e].pulseCount = 0 \/ th[e].i < th[e].pulseCount)
    /\ th' = [th EXCEPT ![e] = [@ EXCEPT !.pc = "pulseDone", !.ret = "nil"]]
    /\ UNCHANGED <<ledEnabled, effectActive, currentEffectType, mutex,
                   stopChan, chans, hw, lis, local, done, nexec, launched,
                   quota, expect, staleUse, manualSince, stopSince>>

PulseNext ==
    \E e \in Execs :
        \/ PulseColorBegin(e)
        \/ PulseColorUp(e)
        \/ PulseColorDown(e)
        \/ PulseColorCycleEnd(e)
        \/ PulseColorEnd(e)
        \/ FadeColorBegin(e)
        \/ FadeColorStep(e)
        \/ FadeColorSubWait(e)
        \/ FadeColorEnd(e)

SpecPulse == PulseInit /\ [][PulseNext]_vars

\* ------------------------------------------- Three executions, one StartEffect
\* Two direct calls of CallNotificationEffect and then StartEffect(EFFECT_CALL):
\* the first task is preempted by the second call and makes its final reset
\* while the second task runs, so that StartEffect, called once the first
\* task is over, finds no effect active and installs a new stop channel
\* without signalling the second task's listener.
RaceScenario ==
    [execs |-> MaxExec, others |-> 0, stops |-> 0, toggles |-> 0, manuals |-> 0,
     iofails |-> 0, start |-> {EFFECT_CALL}, direct |-> {EFFECT_CALL}]

RaceInit ==
    /\ ledEnabled = TRUE
    /\ effectActive = FALSE
    /\ currentEffectType = EFFECT_NONE
    /\ mutex = NoOne
    /\ stopChan = 0
    /\ chans = [c \in 0..MaxExec |-> <<>>]
    /\ hw = ColorOff
    /\ th = [t \in Threads |-> IF t = Caller THEN [Blank EXCEPT !.pc = "idle"] ELSE Blank]
    /\ lis = [e \in Execs |-> BlankLis]
    /\ local = [e \in Execs |-> 0]
    /\ done = [e \in Execs |-> FALSE]
    /\ nexec = 0
    /\ launched = 0
    /\ quota = RaceScenario
    /\ expect = NoExpect
    /\ staleUse = FALSE
    /\ manualSince = FALSE
    /\ stopSince = "no"

RaceTaskStep(e) ==
    \/ runTimedEffectIdle(e)
    \/ runTimedEffectBusy(e)
    \/ runTimedEffectWake(e)
    \/ runTimedEffectOff(e)
    \/ runTimedEffectClose(e)
    \/ runTimedEffectFinal(e)
    \/ CallOnStop(e)
    \/ CallOnTimer(e)
    \/ CallOffStop(e)
    \/ CallOffTimer(e)
    \/ setColorEnter(e)
    \/ setChannelGate(e)
    \/ setChannelWrite(e)

RaceListenerStep(e) ==
    \/ ListenerReceive(e)
    \/ ListenerRelay(e)
    \/ ListenerTimeoutExit(e)
    \/ ListenerReload(e)

RaceNext ==
    \/ nexec < MaxPreempt /\ DirectEffect(EFFECT_CALL)
    \/ nexec = MaxPreempt /\ th[1].pc = "dead" /\ StartEffect(EFFECT_CALL)
    \/ StartEffectLockIdle
    \/ \E e \in Execs : RaceTaskStep(e) \/ RaceListenerStep(e)

SpecRace == RaceInit /\ [][RaceNext]_vars

\* ------------------------------------------------------------- properties
\* No execution is requested and unfinished, and the host is in no call.
Quiet == th[Caller].pc = "idle" /\ \A e \in Execs : ~ExecBusy(e)

\* C1: when an execution a has been superseded by a later execution b (the
\* task of b is running and b is the effect on record), the completion of a
\* leaves the record alone: IsEffectActive() stays true and GetCurrentEffect()
\* stays the kind of b.
C1_StaleCompletionDiscarded ==
    [][\A a, b \in Execs :
          (/\ th[a].pc = "rteFinal" /\ th'[a].pc = "dead"
           /\ th[a].lidx < th[b].lidx /\ TaskAlive(b)
           /\ IsEffectActive /\ GetCurrentEffect = th[b].kind)
          => (IsEffectActive' /\ GetCurrentEffect' = th[b].kind)]_vars

\* C2: a manual setter called with a color in range while an effect task was
\* running and the LED enabled: once every task has exited, with no further
\* call, the hardware shows the value the setter was called with.
C2_ManualWriteStands ==
    (Quiet /\ expect.live /\ InRange(expect.asked))
        => \A n \in 1..3 : expect.only \in {0, n} => hw[n] = expect.asked[n]

\* C3: if StopCurrentEffect is called while an effect task is running and no
\* effect is started afterwards, then eventually every task has exited, the
\* three hardware channels are 0 and IsEffectActive() is false.
C3_StopConverges ==
    (stopSince = "live" /\ quota.execs = 0 /\ th[Caller].pc = "idle")
        ~> (Quiet /\ hw = ColorOff /\ ~IsEffectActive)

\* C4: an unbounded effect b that StartEffect started while the task of another
\* effect was running keeps running: as long as it is the last effect
\* requested and nothing has asked for a stop since, its task has not exited.
C4_PreemptingEffectKeepsRunning ==
    \A b \in Execs :
        (/\ th[b].over /\ th[b].kind = EFFECT_CALL
         /\ b = nexec /\ quota.execs = 0 /\ quota.others = 0
         /\ th[Caller].pc = "idle"
         /\ stopSince = "no" /\ ~manualSince)
        => th[b].pc # "dead"

\* C5: no thread sleeps while it holds the mutex.
C5_NoSleepUnderMutex ==
    \A t \in Threads : mutex = t => th[t].pc \notin {"seSleep", "rteSleep"}

\* C6: while the LED is disabled all three hardware channels are 0.
C6_DisabledStaysDark == ~ledEnabled => hw = ColorOff

\* C7: a call of SetLEDEnabled leaves effectActive, currentEffectType, stopChan
\* and the contents of every stop channel unchanged, so IsEffectActive() and
\* GetCurrentEffect() return what they returned before; the hardware changes
\* only by the write of 0 to all channels on a change from enabled to disabled.
C7_SetLEDEnabledFrame ==
    [][quota'.toggles # quota.toggles =>
          /\ effectActive' = effectActive
          /\ currentEffectType' = currentEffectType
          /\ stopChan' = stopChan
          /\ chans' = chans
          /\ IsEffectActive' = IsEffectActive
          /\ GetCurrentEffect' = GetCurrentEffect
          /\ hw' = IF ledEnabled /\ ~ledEnabled' THEN ColorOff ELSE hw]_vars

\* The LED has been disabled while the task of the effect on record was between
\* the enabled check and the file write of a channel setter.
C7_DisabledDuringEffect ==
    /\ ~ledEnabled
    /\ IsEffectActive /\ GetCurrentEffect # EFFECT_NONE
    /\ \E e \in Execs : TaskAlive(e) /\ th[e].sc \in {3, 5, 7}

\* C8: no listener takes a stop signal that was sent, while an earlier task was
\* launched, before the task of its own execution was launched.
C8_NoStaleStopSignal == ~staleUse

\* C9: whenever no execution is alive, the LED is enabled and no manual setter
\* has been called since the last effect was requested, all three hardware
\* channels are 0.
C9_NoStaleLitState == (Quiet /\ ledEnabled /\ ~manualSince) => hw = ColorOff

\* C10: when SetRGB(r, g, b) returns, called with the LED enabled and no effect
\* ever requested, the hardware shows each of r, g, b clamped to 0..255.
C10_SetRGBClamps ==
    (th[Caller].pc = "idle" /\ expect.only = 0 /\ nexec = 0)
        => hw = [n \in 1..3 |-> Clamp(expect.asked[n])]

\* The host is inside SetRGB with a color that has a channel outside 0..255, at
\* the entry of setColor, and takes its step.
RejectStep ==
    /\ th[Caller].pc = "manual" /\ th[Caller].sc = 1
    /\ ~InRange(th[Caller].col)
    /\ th'[Caller] # th[Caller]

\* C11 (as stated): setColor given a color with a channel outside 0..255
\* returns an error to the caller and writes no hardware channel.
C11_OutOfRangeIsAnError ==
    [][RejectStep =>
          /\ th'[Caller].pc = "idle" /\ th'[Caller].ret = "err"
          /\ hw' = hw]_vars

\* C11 (amended): setColor given a color with a channel outside 0..255 writes
\* no hardware channel and returns at once; it returns an error if the LED is
\* enabled and nil if the LED is disabled.
C11_OutOfRangeWritesNothing ==
    [][RejectStep =>
          /\ th'[Caller].pc = "idle"
          /\ th'[Caller].ret = IF ledEnabled THEN "err" ELSE "nil"
          /\ hw' = hw]_vars

\* SetRGB, called with the LED enabled and a color out of range, has returned
\* an error.
C11_Rejected ==
    /\ th[Caller].pc = "idle" /\ th[Caller].ret = "err"
    /\ expect.only = 0 /\ ~InRange(expect.asked)

\* C12: a failed hardware write inside FadeColor or PulseColor does not make
\* the primitive return early: no effect task is returning from FadeColor or
\* PulseColor with the error of a failed write.
C12_WriteFailureNotFatal == \A e \in Execs : th[e].ret # "err"

\* A step that is a call of StartEffect (the call takes one of the scenario's
\* StartEffect calls; a direct call of an effect function adds an execution).
StartEffectStep ==
    /\ quota'.execs # quota.execs \/ quota'.others # quota.others
    /\ nexec' = nexec

\* C13: StartEffect called while the LED is disabled returns false, launches no
\* goroutine, sends no stop signal, and leaves effectActive, currentEffectType,
\* the stop channel and the hardware unchanged.
C13_DisabledStartRejected ==
    [][(StartEffectStep /\ ~ledEnabled) =>
          /\ th'[Caller].pc = "idle" /\ th'[Caller].ret = "false"
          /\ \A e \in Execs : th'[e] = th[e]
          /\ lis' = lis /\ launched' = launched
          /\ effectActive' = effectActive
          /\ currentEffectType' = currentEffectType
          /\ stopChan' = stopChan /\ chans' = chans
          /\ hw' = hw]_vars

\* StartEffect has returned false without replacing the stop channel, that is
\* on its disabled path, while an effect is on record and its task runs.
C13_RejectedDuringEffect ==
    /\ th[Caller].pc = "idle" /\ th[Caller].ret = "false"
    /\ stopChan = 0
    /\ IsEffectActive /\ AnyTaskAlive

\* C14: with the LED enabled, StartEffect(k) returns true and launches exactly
\* one effect task for every defined kind k from EFFECT_BOOTUP to EFFECT_MUSIC.
\* The step examined is the one of lines 1732-1776, which only a call that
\* found the LED enabled reaches.
C14_DefinedKindStarts ==
    [][(/\ stopChan' # stopChan
        /\ th[Caller].kind \in EFFECT_BOOTUP..EFFECT_MUSIC) =>
          /\ th'[Caller].ret = "true"
          /\ nexec' = nexec + 1]_vars

\* The one effect of the finite scenario has been started with StartEffect,
\* which has returned true.
FiniteStarted ==
    /\ quota = [FiniteScenario EXCEPT !.execs = 0]
    /\ th[Caller].pc = "idle" /\ th[Caller].ret = "true"

\* C15: a finite effect (EFFECT_BLUETOOTH_FAILED) started with StartEffect
\* from idle with the LED enabled, and followed by no other call, eventually
\* reaches and then stays in a state where the three hardware channels are 0
\* and IsEffectActive() is false.
C15_FiniteEffectEnds ==
    FiniteStarted ~> [](hw = ColorOff /\ ~IsEffectActive)

\* The effect started with StartEffect has run to its end: its task has exited,
\* the hardware is off and no effect is on record.
C15_Finished ==
    /\ FiniteStarted /\ nexec = 1 /\ Quiet
    /\ hw = ColorOff /\ ~IsEffectActive

\* The task of execution a is in its effect function and nothing has told it
\* to stop: no signal waits for its listener and none has been relayed.
Undisturbed(a) ==
    /\ TaskAlive(a)
    /\ th[a].pc \notin {"effRet", "rteClose", "rteFinal"}
    /\ lis[a].pc = "listen" /\ chans[lis[a].ch] = <<>> /\ local[a] = 0

\* The first hardware write of the effect function of execution b.
FirstBodyWrite(b) ==
    /\ ~th[b].wrote /\ th'[b].wrote
    /\ th[b].pc # "rteClose"

\* C16: for every effect b that StartEffect starts while the task of another
\* effect is running, the stop signal is sent before the task of b is launched,
\* and when the effect function of b makes its first hardware write
\* IsEffectActive() is true and the effect on record is the kind of b.
C16_RecordedBeforeFirstWrite ==
    [][/\ (/\ nexec' = nexec + 1 /\ th[Caller].over
           /\ \E a \in Execs : Undisturbed(a))
          => th[Caller].pc = "seSleep"
       /\ \A b \in Execs :
            (th[b].over /\ FirstBodyWrite(b))
            => (effectActive /\ currentEffectType = th[b].kind)]_vars

\* StartEffect, called with a defined kind while no effect is on record and no
\* execution is under way, reaches lines 1732-1776 (the LED was enabled).
IdleStartStep ==
    /\ th[Caller].pc = "seLock" /\ stopChan' # stopChan
    /\ th[Caller].kind \in EFFECT_BOOTUP..EFFECT_MUSIC
    /\ ~effectActive /\ \A e \in Execs : ~ExecBusy(e)

\* C17: StartEffect(k) for a defined kind k, called when idle and enabled,
\* returns true without waiting for the effect task, and on return
\* IsEffectActive() is true and GetCurrentEffect() is k; both keep these values
\* until that task completes, in the scenario where no other request is made.
C17_StartReturnsRunning ==
    [][/\ IdleStartStep =>
            /\ th'[Caller].pc = "idle" /\ th'[Caller].ret = "true"
            /\ IsEffectActive' /\ GetCurrentEffect' = th[Caller].kind
       /\ (FiniteStarted /\ th[1].pc # "dead") =>
            (IsEffectActive /\ GetCurrentEffect = th[1].kind)]_vars

\* C18: StopCurrentEffect called when no effect is active returns at once,
\* sends no stop signal and leaves effectActive, ledEnabled, the contents of
\* the stop channels, the value of GetCurrentEffect() and the hardware as they
\* were, and every task and listener where it was: the call changes nothing
\* a later call can observe.
C18_StopWhenIdleIsNoOp ==
    [][(quota'.stops # quota.stops /\ ~effectActive) =>
          /\ th' = th /\ lis' = lis /\ local' = local /\ done' = done
          /\ mutex' = mutex
          /\ chans' = chans /\ stopChan' = stopChan
          /\ effectActive' = effectActive /\ ledEnabled' = ledEnabled
          /\ GetCurrentEffect' = GetCurrentEffect
          /\ hw' = hw]_vars

\* StopCurrentEffect has been called after an effect has run to its end, with
\* no task left and no effect on record.
C18_StoppedWhenIdle ==
    /\ stopSince = "idle" /\ nexec > 0
    /\ ~effectActive /\ Quiet

\* The LED is enabled and SetLEDEnabled is not called again.
EnabledForGood == ledEnabled /\ quota.toggles = 0

\* C19: a call of SetLEDEnabled leaves every effect task, listener and relayed
\* signal where it is, so the effect is neither reset nor restarted; and once
\* the LED is enabled again, a setColor of an effect task runs through the
\* enabled check, the range check and the three channel setters, each of which
\* writes its value to the hardware.
C19_MuteKeepsPosition ==
    [][/\ quota'.toggles # quota.toggles =>
            (th' = th /\ lis' = lis /\ local' = local /\ done' = done)
       /\ \A e \in Execs :
            (/\ EnabledForGood /\ th[e].sc # 0 /\ th'[e] # th[e]
             /\ InRange(th[e].col) /\ quota'.iofails = quota.iofails)
            => LET sc == th[e].sc
                   n == sc \div 2
               IN  IF sc \in {3, 5, 7}
                   THEN /\ hw'[n] = th[e].col[n]
                        /\ th'[e].sc = AfterChannel(th[e], n)
                   ELSE th'[e].sc = sc + 1]_vars

\* SetLEDEnabled(false) has cut off the red light of a running
\* CallNotificationEffect task (the hardware is dark in the red phase of a task
\* that has written to it); the LED is enabled again, and the task, still
\* running, is in its next setColor, past the enabled check of the first
\* channel setter and at the file write.
C19_ResumedAfterMute ==
    /\ EnabledForGood
    /\ \E e \in Execs :
         /\ th[e].kind = EFFECT_CALL /\ th[e].wrote
         /\ th[e].pc = "callOff" /\ th[e].sc = 3 /\ th[e].ph = 1
         /\ th[e].col = ColorOff
    /\ hw = ColorOff
    /\ IsEffectActive

\* Thread t is inside a call: the host in a public operation that has not
\* returned, or an execution of runTimedEffect that has not finished.
InCall(t) == IF t = Caller THEN th[Caller].pc # "idle" ELSE ExecBusy(t)

\* Thread t can take a step of its own.
Moves(t) ==
    IF t = Caller
    THEN ENABLED ((CallerNext \/ ColorNext(Caller)) /\ th'[Caller] # th[Caller])
    ELSE ENABLED ((ExecNext(t) \/ ColorNext(t)) /\ th'[t] # th[t])

\* The threads t waits for: the holder of the mutex, and for the host inside a
\* direct effect call the execution whose runTimedEffect it is running.
WaitsFor(t) ==
    (IF mutex \notin {NoOne, t} THEN {mutex} ELSE {})
        \cup (IF t = Caller /\ th[Caller].pc = "inDirect" THEN {th[Caller].i} ELSE {})

\* C20: no interleaving reaches a deadlock: a thread inside a call can always
\* take a step, or waits for a thread that can, or for one that in turn waits
\* for a thread that can; in particular a send on a stop channel, full or not,
\* never keeps a thread waiting.
C20_NoThreadStuck ==
    \A t \in Threads :
        InCall(t) =>
            \/ Moves(t)
            \/ \E u \in WaitsFor(t) :
                  Moves(u) \/ \E v \in WaitsFor(u) : Moves(v)

\* StopCurrentEffect has made its send on a full stop channel and returned: the
\* channel StartEffect made still holds the one signal that was sent before the
\* running task was launched.
C20_SentOnFullChannel ==
    /\ stopSince = "live" /\ effectActive
    /\ stopChan = 1 /\ launched = 1
    /\ Len(chans[stopChan]) = StartStopCap /\ Head(chans[stopChan]) = 0
    /\ th[Caller].pc = "idle"

\* min(max(v, 0), 255).
MinMax255(v) ==
    LET lo == IF v > 0 THEN v ELSE 0
    IN  IF lo < 255 THEN lo ELSE 255

\* The host is in SetRed, SetGreen or SetBlue, at step sc of the setter.
InSetter(sc) ==
    /\ th[Caller].pc = "manual" /\ th[Caller].one /\ th[Caller].sc = sc
    /\ th'[Caller] # th[Caller]

\* C21: every value written to a hardware channel is in 0..255; SetRed,
\* SetGreen and SetBlue called with v, finding the LED enabled, go on to the
\* file write, and the write, when it succeeds, puts min(max(v, 0), 255) in
\* their channel and the call returns nil.
C21_WritesAreClamped ==
    [][/\ \A n \in 1..3 : hw'[n] \in 0..255
       /\ \A n \in 1..3 :
            /\ (InSetter(2 * n) /\ ledEnabled) => th'[Caller].sc = 2 * n + 1
            /\ (InSetter(2 * n + 1) /\ quota'.iofails = quota.iofails) =>
                  /\ hw'[n] = MinMax255(th[Caller].col[n])
                  /\ th'[Caller].pc = "idle" /\ th'[Caller].ret = "nil"]_vars

\* SetRed(300) has returned nil and the red channel holds 255.
C21_ClampedHigh ==
    /\ expect.only = 1 /\ expect.asked[1] = 300
    /\ th[Caller].pc = "idle" /\ th[Caller].ret = "nil"
    /\ hw[1] = 255

\* A step writes the scheduler state.
SchedulerWrite ==
    \/ effectActive' # effectActive
    \/ currentEffectType' # currentEffectType
    \/ ledEnabled' # ledEnabled
    \/ stopChan' # stopChan

\* C22: every write to effectActive, currentEffectType, ledEnabled and the
\* stopChan variable is made by a goroutine that holds the mutex: the step
\* either takes the free mutex or is a step of the thread that holds it.
C22_WritesUnderMutex ==
    [][SchedulerWrite =>
          \/ mutex = NoOne
          \/ th'[mutex] # th[mutex]]_vars

\* The task of one execution has finished and is about to reset the record
\* while another thread sleeps with the mutex held.
C22_ResetWaitsForMutex ==
    /\ mutex # NoOne
    /\ \E e \in Execs : e # mutex /\ th[e].pc = "rteFinal"

\* C23: an effect started by StartEffect from idle with the LED enabled, and
\* followed by no stop, start or manual-set call, never receives a stop signal:
\* its listener takes none from the stop channel and none is relayed to its
\* effect function.
C23_NoSignalFromOwnStart ==
    quota \in {FiniteScenario, [FiniteScenario EXCEPT !.execs = 0]} =>
        \A e \in Execs : lis[e].pc # "relay" /\ local[e] = 0

\* C24: whenever an effect task is alive in its effect function and has not
\* been sent a stop signal, IsEffectActive() is true and the listener of the
\* task waits on the current stop channel, so that StopCurrentEffect can cancel
\* the task.
C24_AliveTaskIsOnRecord ==
    \A e \in Execs :
        Undisturbed(e) => (IsEffectActive /\ lis[e].ch = stopChan)

\* C25: once the effect function of a NotificationEffect task has consumed a
\* stop signal, in one of PulseColor's own checks or in a FadeColor it called,
\* PulseColor starts no further FadeColor.
C25_NoFadeAfterStop ==
    [][\A e \in Execs :
          (th[e].took /\ th[e].pc \in {"pulseAct", "pulseMidAct"})
          => th'[e].pc # "fadeSel"]_vars

\* The task of execution e takes a step inside FadeColor, at pc, between two
\* calls of setColor, while a stop signal waits on its stop channel.
FadeStepWithSignal(e, pc) ==
    /\ th[e].pc = pc /\ th[e].sc = 0 /\ ~th[e].err
    /\ local[e] > 0
    /\ th'[e] # th[e]

\* FadeColor consumes the signal, calls setColor(ColorOff) and returns nil.
FadeCancelled(e) ==
    /\ local'[e] = local[e] - 1
    /\ th'[e].pc = "fadeRet" /\ th'[e].ret = "nil"
    /\ th'[e].sc = 1 /\ th'[e].col = ColorOff

C27_SecondStartPrevails ==
    nexec = 2 =>
        /\ GetCurrentEffect # th[1].kind
        /\ th[2].pc # "dead"

\* C28: whenever the two queries can run (the mutex is free), IsEffectActive()
\* is true exactly when GetCurrentEffect() returns a kind other than
\* EFFECT_NONE.
C28_QueriesAgree ==
    mutex = NoOne => (IsEffectActive <=> GetCurrentEffect # EFFECT_NONE)

\* A step of a StartEffect call that was made with an undefined effect kind
\* while a task was running.
UndefinedStartStep ==
    /\ th[Caller].pc \in {"seLock", "seSleep"}
    /\ th[Caller].kind \notin EFFECT_BOOTUP..EFFECT_MUSIC
    /\ th[Caller].over
    /\ th'[Caller] # th[Caller]

\* C29: StartEffect called with an undefined effect kind while an effect is
\* running returns false and none of its steps sends a stop signal, replaces
\* the stop channel, or changes effectActive or the kind that
\* GetCurrentEffect() returns.
C29_UndefinedStartLeavesEffect ==
    [][UndefinedStartStep =>
         /\ chans' = chans
         /\ stopChan' = stopChan
         /\ effectActive' = effectActive
         /\ currentEffectType' = currentEffectType
         /\ th'[Caller].pc = "idle" => th'[Caller].ret = "false"]_vars

\* C30: no effect task is launched while the LED is disabled: every step that
\* starts a task goroutine (runTimedEffect, line 1550) is taken with
\* ledEnabled true, whether the effect came from StartEffect or from a direct
\* call of an effect function.
C30_NoLaunchWhileDisabled ==
    [][launched' # launched => ledEnabled]_vars

\* A step in which the stop listener of execution e reads effectActive (the
\* timeout branch, line 1595) or evaluates stopChan again (line 1566).
ListenerReads(e) ==
    /\ lis[e].pc = "listen"
    /\ ~done[e]
    /\ \/ lis'[e].pc = "exit"
       \/ lis'[e].ch # lis[e].ch

\* C31: the reads of effectActive and of stopChan made by the goroutines of an
\* effect are made under the mutex, so that none of them falls inside a
\* critical section of another thread: no stop listener reads either variable
\* while StartEffect or another execution of runTimedEffect holds the mutex.
C31_ReadsUnderMutex ==
    [][\A e \in Execs : ListenerReads(e) => mutex = NoOne]_vars

\* The task of execution e takes a step inside BlinkColor, at pc, between two
\* calls of setColor, while a stop signal waits on its stop channel.
BlinkStepWithSignal(e, pc) ==
    /\ th[e].pc = pc /\ th[e].sc = 0
    /\ local[e] > 0
    /\ th'[e] # th[e]

\* BlinkColor consumes the signal, calls setColor(ColorOff) and returns nil.
BlinkCancelled(e) ==
    /\ local'[e] = local[e] - 1
    /\ th'[e].pc = "blinkRet" /\ th'[e].ret = "nil"
    /\ th'[e].sc = 1 /\ th'[e].col = ColorOff

InFadeLoop(e) == th[e].pc \in {"fadeTop", "fadeSleep", "fadeDone"}

\* C33: for every duration the step count FadeColor chooses is at least 10
\* and the wait of one step, duration/steps, is at most 20 ms.
C33_StepCountAndWait ==
    \A e \in Execs :
        InFadeLoop(e) => /\ th[e].steps >= FadeMinSteps
                         /\ th[e].stepDuration <= FadeMaxStep

\* v lies between a and b, whichever of the two is larger.
Between(a, v, b) == (a <= v /\ v <= b) \/ (b <= v /\ v <= a)

\* The task of execution e writes the color of a step of its FadeColor.
FadeWrites(e) ==
    /\ th[e].pc = "fadeTop"
    /\ th'[e].written = th[e].written + 1

\* C36: the first color an uncancelled FadeColor(from, to, D) writes is from
\* and the last is to; every color it writes lies, channel by channel, between
\* from and to and between the color written before it and to; and when the
\* loop ends it has written the colors of the steps 0..steps, the last of
\* which, to, is what the brightness files hold.
C36_FadeInterpolates ==
    [][\A e \in Execs :
          /\ FadeWrites(e) =>
                /\ hw' = th'[e].col
                /\ th[e].step = 0 => th'[e].col = th[e].from
                /\ th[e].step = th[e].steps => th'[e].col = th[e].to
                /\ \A n \in 1..3 :
                      /\ Between(th[e].from[n], th'[e].col[n], th[e].to[n])
                      /\ th[e].step > 0 =>
                            Between(th[e].col[n], th'[e].col[n], th[e].to[n])
          /\ (th[e].pc = "fadeTop" /\ th'[e].pc = "fadeDone" /\ ~th'[e].took) =>
                /\ th[e].written = th[e].steps + 1
                /\ th[e].col = th[e].to /\ hw = th[e].to]_vars

\* An uncancelled FadeColor between two colors that differ has ended: it has
\* written the colors of all its steps and the files hold the color to.
C36_FadeReachedTarget ==
    \E e \in Execs :
        /\ th[e].pc = "fadeDone" /\ ~th[e].took
        /\ th[e].from = <<10, 200, 128>> /\ th[e].to = <<250, 5, 128>>
        /\ th[e].written = th[e].steps + 1 /\ th[e].steps > FadeDefaultSteps
        /\ hw = th[e].to

\* C38: the time FadeColor(from, to, D) has spent in its sub-waits, over all
\* its steps, is at most D.
C38_FadeWaitsAtMostDuration ==
    \A e \in Execs : InFadeLoop(e) => th[e].waited <= th[e].duration

\* The task of execution e is in a sub-wait of FadeColor and takes a step.
FadeSubWaitStep(e) == th[e].pc = "fadeSleep" /\ th'[e] # th[e]

\* C39: the wait of a step of FadeColor is slept in sub-waits of
\* min(remainingTime, 10 ms): no sub-wait is longer than 10 ms, the sub-waits
\* of a step add up to stepDuration exactly, and each sub-wait is a select on
\* the stop channel: with a stop signal waiting the step taken is the
\* cancellation (off is written and FadeColor returns nil), not the timer.
C39_SubWaitsOfAStep ==
    [][\A e \in Execs :
          FadeSubWaitStep(e) =>
             IF local[e] > 0
             THEN /\ local'[e] = local[e] - 1
                  /\ th'[e].pc = "fadeDone" /\ th'[e].ret = "nil"
                  /\ hw' = ColorOff /\ th'[e].waited = th[e].waited
             ELSE LET slept == th'[e].waited - th[e].waited IN
                  /\ slept = Min(th[e].rem, FadeSubWait)
                  /\ slept > 0 /\ slept <= FadeSubWait
                  /\ th'[e].stepWaited = th[e].stepWaited + slept
                  /\ th[e].stepWaited + th[e].rem = th[e].stepDuration
                  /\ IF slept < th[e].rem
                     THEN /\ th'[e].pc = "fadeSleep"
                          /\ th'[e].rem = th[e].rem - slept
                     ELSE /\ th'[e].pc = "fadeTop"
                          /\ th'[e].stepWaited = th[e].stepDuration]_vars

\* A step of 20161290 ns has been slept in full: two sub-waits of 10 ms and
\* one of 161290 ns.
C39_StepSleptInThree ==
    \E e \in Execs :
        /\ th[e].pc = "fadeTop" /\ th[e].step = 1
        /\ th[e].stepDuration > 2 * FadeSubWait
        /\ th[e].stepWaited = th[e].stepDuration
        /\ th[e].waited = th[e].stepDuration

\* Thread t is inside a call of setColor and takes a step.
InSetColor(t) == th[t].sc > 0 /\ ~th[t].one /\ th'[t] # th[t]

\* C37: setColor goes through the channels in the order red, green, blue:
\* a call only moves forward through its setters, the file of channel n is
\* written only by the write of setter n, and a write that fails ends the
\* call with the error, leaving the files of the later channels as they
\* were.
C37_ChannelsInOrder ==
    [][\A t \in Threads :
          InSetColor(t) =>
             /\ th'[t].sc = 0 \/ th'[t].sc > th[t].sc
             /\ \A n \in 1..3 : hw'[n] # hw[n] => th[t].sc = 2 * n + 1
             /\ quota'.iofails < quota.iofails =>
                   /\ th[t].sc \in {3, 5, 7}
                   /\ hw' = hw
                   /\ th'[t].sc = 0
                   /\ IF t = Caller THEN th'[t].ret = "err" ELSE th'[t].err]_vars

\* A file write has failed in a setColor of an effect task, at red or at
\* green: the call is over with an error and the green file does not hold the
\* green of the color.
C37_StoppedAtFailure ==
    \E e \in Execs :
        /\ th[e].err /\ th[e].sc = 0 /\ quota.iofails < MaxIOFail
        /\ hw[2] # th[e].col[2]

\* The LED is disabled and stays disabled.
DisabledForGood == ~ledEnabled /\ quota.toggles = 0

\* C40: with the LED disabled an effect task goes on through its sequence:
\* no call of setColor it makes ends with an error, and a finite effect
\* (BluetoothFailedEffect) whose task is running with the LED disabled runs
\* to its end, after which the task is gone, effectActive is false and no
\* effect is on record.
C40_DisabledEffectRunsOut ==
    /\ [][\A e \in Execs :
             (~ledEnabled /\ th[e].sc # 0 /\ th'[e] # th[e]) => ~th'[e].err]_vars
    /\ (DisabledForGood /\ \E e \in Execs : TaskAlive(e))
          ~> [](/\ DisabledForGood /\ th[1].pc = "dead"
                /\ ~effectActive /\ currentEffectType = EFFECT_NONE)

\* BluetoothFailedEffect, called with the LED disabled, has run to its end
\* without a single write: the task is gone and the scheduler is idle.
C40_RanOutDisabled ==
    /\ DisabledForGood
    /\ launched = 1 /\ th[1].pc = "dead" /\ ~th[1].wrote /\ lis[1].pc = "exit"
    /\ ~effectActive /\ currentEffectType = EFFECT_NONE
    /\ hw = ColorOff

\* The task of execution e takes a step of BlinkColor at pc, between two calls
\* of setColor, with no stop signal waiting and effectActive true.
BlinkStepOn(e, pc) ==
    /\ th[e].pc = pc /\ th[e].sc = 0
    /\ local[e] = 0 /\ effectActive
    /\ th'[e] # th[e]

\* C35: absent cancellation, a round of BlinkColor(color, n, on, off) is
\* setColor(color), the on-wait, setColor(ColorOff) and the off-wait, in that
\* order and with no other write; with n > 0 BlinkColor returns nil at the
\* end of the off-wait of round n, and not before, so that off is its last
\* write; with n = 0 the end of an off-wait always starts another round.
C35_BlinkRounds ==
    [][\A e \in Execs :
          LET n == BlinkCountOf(th[e].kind) IN
          /\ BlinkStepOn(e, "blinkSel") => th'[e].pc = "blinkAct" /\ th'[e].sc = 0
          /\ BlinkStepOn(e, "blinkAct") =>
                /\ th'[e].pc = "blinkOn" /\ th'[e].sc = 1
                /\ th'[e].col = BlinkColorOf(th[e].kind)
          /\ BlinkStepOn(e, "blinkOn") =>
                /\ th'[e].pc = "blinkOff" /\ th'[e].sc = 1
                /\ th'[e].col = ColorOff
          /\ BlinkStepOn(e, "blinkOff") =>
                IF n > 0 /\ th[e].i = n - 1
                THEN /\ th'[e].pc = "blinkRet" /\ th'[e].ret = "nil"
                     /\ th'[e].sc = 0 /\ th[e].col = ColorOff
                ELSE /\ th'[e].pc = "blinkSel" /\ th'[e].sc = 0
                     /\ th'[e].i = IF n = 0 THEN th[e].i ELSE th[e].i + 1
          /\ (th'[e].pc = "blinkRet" /\ th[e].pc # "blinkRet"
              /\ local' = local /\ effectActive) =>
                (n > 0 /\ th[e].pc = "blinkOff" /\ th[e].i = n - 1)]_vars

\* The BlinkColor of BluetoothFailedEffect has returned after its three
\* rounds, with no StopCurrentEffect: off is written.
C35_ThreeRoundsDone ==
    \E e \in Execs :
        /\ th[e].kind = EFFECT_BLUETOOTH_FAILED
        /\ th[e].pc = "blinkRet" /\ th[e].sc = 0 /\ th[e].ret = "nil"
        /\ ~th[e].took /\ th[e].wrote /\ th[e].col = ColorOff
        /\ quota.stops = MaxStops /\ effectActive
        /\ hw = ColorOff

\* The task of execution e, inside PulseColor, calls FadeColor.
PulseCallsFade(e) ==
    /\ th[e].pc \in {"pulseTop", "fadeDone"}
    /\ th'[e].pc = "fadeCall"

\* The FadeColor that the task of execution e called last has run through all
\* its steps and left the color to in the brightness files.
FadeRanThrough(e) ==
    /\ th[e].pc = "fadeDone" /\ th[e].ret = "nil"
    /\ th[e].written = th[e].steps + 1
    /\ hw = th[e].to

\* C34: absent cancellation, PulseColor(color, n, d) makes its FadeColor calls
\* in cycles of FadeColor(off, color, d/2) followed by FadeColor(color, off,
\* d/2), each of which runs through; it returns only with n > 0, after cycle
\* number n, having made 2n FadeColor calls; with n = 0 it never returns.
C34_PulseCycles ==
    [][\A e \in Execs :
          /\ PulseCallsFade(e) =>
                /\ th'[e].duration = th[e].pulseDuration \div 2
                /\ IF th[e].pc = "pulseTop"
                   THEN /\ th'[e].from = ColorOff /\ th'[e].to = th[e].color
                        /\ th[e].pulseCount > 0 =>
                              (th[e].i < th[e].pulseCount /\ th[e].fades = 2 * th[e].i)
                   ELSE /\ th'[e].from = th[e].color /\ th'[e].to = ColorOff
                        /\ th[e].from = ColorOff /\ th[e].to = th[e].color
                        /\ FadeRanThrough(e)
                        /\ th[e].pulseCount > 0 => th[e].fades = 2 * th[e].i + 1
          /\ (th[e].pc = "fadeDone" /\ th'[e].pc = "pulseTop") =>
                /\ th[e].from = th[e].color /\ th[e].to = ColorOff
                /\ FadeRanThrough(e)
          /\ (th[e].pc # "pulseDone" /\ th'[e].pc = "pulseDone") =>
                /\ th[e].pulseCount > 0
                /\ th[e].i = th[e].pulseCount
                /\ th[e].fades = 2 * th[e].pulseCount
                /\ th'[e].ret = "nil" /\ hw' = hw]_vars

\* PulseColor(ColorGreen, 2, 2s) has returned after its two cycles, four
\* FadeColor calls of 1s each, and the LED is off.
C34_TwoCyclesDone ==
    \E e \in Execs :
        /\ th[e].pc = "pulseDone" /\ th[e].ret = "nil"
        /\ th[e].color = ColorGreen /\ th[e].pulseCount = 2
        /\ th[e].pulseDuration = NotificationPulseDuration
        /\ th[e].i = 2 /\ th[e].fades = 4
        /\ hw = ColorOff
====
